---- MODULE Spec2Model ----
(***************************************************************************)
(* Model of the form engine of frogcherub (src/cherub/frogcherub/forms.py) *)
(* with its default provider (util.py) and its yes/no prompt (entry.py).   *)
(*                                                                         *)
(* A Form is a numbered node of a schema tree; form 1 is the root.  Python *)
(* list indices are 0-based and the sequences below are 1-based, so the    *)
(* field a cursor value c points at is Fields(fid)[c + 1].                 *)
(***************************************************************************)
EXTENDS Integers, Sequences, FiniteSets, TLC

\* ------------------------------------------------------------------ bounds
\* fills started on one Form instance
MaxFills == 3
\* answers rejected in one fill
MaxRetries == 2
\* highest index a repetition of a multivalue field may take
MaxIndex == 1
\* exchanges with the operator in one fill
MaxQuestions == 8

\* --------------------------------------------------------------- constants
\* Form.__init__: the cursor before the first field
NotStarted == -1

\* ------------------------------------------------------------------ values
\* Python values, tagged so that values of different types compare unequal.
None == <<"none">>
Str(x) == <<"str", x>>
Bool(b) == <<"bool", b>>
Uuid(n) == <<"uuid", n>>
EmptyDict == <<"dict", <<>>, <<>>>>
EmptyList == <<"list", <<>>>>
\* a default that is a callable: SequenceProvider number p of the schema
Callable(p) == <<"call", p>>
\* the error value of a fold that raised
Raised == <<"raised">>

IsDict(v) == v[1] = "dict"
IsList(v) == v[1] = "list"
callable(v) == v[1] = "call"

\* path components: a field name, "[n]" or "[None]"
Key(n) == <<"key", n>>
Idx(n) == <<"idx", n>>
IdxNone == <<"idxnone">>
startswith_bracket(c) == c[1] \in {"idx", "idxnone"}

\* EOF is the end-of-input signal (Ctrl-D) instead of an answer
EOF == "<EOF>"

\* str.lower on the answers
Lower(x) == IF x = "Y" THEN "y" ELSE x

\* ------------------------------------------------------- field declarations
AutoUuidField(name) ==
    [field_type |-> "autouuid", name |-> name, type |-> "none", choices |-> {},
     default |-> None, nullable |-> FALSE, multivalue |-> FALSE, sentinel |-> "",
     default_last_entered |-> FALSE, polymorphic |-> FALSE, form |-> 0,
     types |-> <<>>, entry_hook |-> FALSE,
     kwargs |-> {}]

SimpleField(name, type, default, nullable, multivalue, sentinel, default_last) ==
    [field_type |-> "simple", name |-> name, type |-> type, choices |-> {},
     default |-> default, nullable |-> nullable, multivalue |-> multivalue,
     sentinel |-> sentinel, default_last_entered |-> default_last,
     polymorphic |-> FALSE, form |-> 0, types |-> <<>>, entry_hook |-> FALSE,
     kwargs |-> {}]

ChoiceField(name, choices, default) ==
    [SimpleField(name, "choice", default, FALSE, FALSE, "done", FALSE)
        EXCEPT !.choices = choices]

ObjectField(name, subform, nullable, multivalue) ==
    [field_type |-> "object", name |-> name, type |-> "none", choices |-> {},
     default |-> None, nullable |-> nullable, multivalue |-> multivalue,
     sentinel |-> "", default_last_entered |-> FALSE, polymorphic |-> FALSE,
     form |-> subform, types |-> <<>>, entry_hook |-> FALSE,
     kwargs |-> {}]

\* types is a sequence of <<tag, form>>; f['form'] starts as the last form made
PolymorphicField(name, types, nullable, multivalue) ==
    [field_type |-> "object", name |-> name, type |-> "none", choices |-> {},
     default |-> None, nullable |-> nullable, multivalue |-> multivalue,
     sentinel |-> "", default_last_entered |-> FALSE, polymorphic |-> TRUE,
     form |-> types[Len(types)][2], types |-> types, entry_hook |-> FALSE,
     kwargs |-> {}]

\* the field declared with entry_hook=hook, hook recording its calls
WithEntryHook(f) == [f EXCEPT !.entry_hook = TRUE]

\* the add_object_field call made with done_hook=hook as well
WithDoneHook(f) == [f EXCEPT !.kwargs = @ \cup {"done_hook"}]

Plain(name) == SimpleField(name, "str", None, FALSE, FALSE, "done", FALSE)
TypeTags == {"person", "animal"}
TypeField == ChoiceField("type", TypeTags, None)

\* SequenceProvider(*members), repeat as set after construction
Provider(members, repeat) == [members |-> members, repeat |-> repeat]

\* ------------------------------------------------------------------ schemas
\* The Forms the model fills: each is the list of its forms' fields (form 1 is
\* the root), the SequenceProviders its defaults call, and the answers the
\* operator types into it.
EmptyForm == [fields |-> << <<>> >>, providers |-> <<>>,
     answers |-> {}]

PlainForm ==
    [fields |-> << <<WithEntryHook(Plain("test")),
                    SimpleField("ok", "bool", None, FALSE, FALSE, "done", FALSE)>> >>,
     providers |-> <<>>,
     answers |-> {"", "a", "Y", EOF}]

TagsForm ==
    [fields |-> << <<SimpleField("tags", "str", None, FALSE, TRUE, "done", FALSE),
                    Plain("after")>> >>,
     providers |-> <<>>,
     answers |-> {"", "a", "b", "done"}]

PolyForm ==
    [fields |-> << <<PolymorphicField("p", <<<<"person", 2>>, <<"animal", 3>>>>,
                                       FALSE, FALSE)>>,
                   <<TypeField, Plain("name"),
                     SimpleField("ok", "bool", None, FALSE, FALSE, "done", FALSE)>>,
                   <<TypeField, Plain("cry")>> >>,
     providers |-> <<>>,
     answers |-> {"", "a", "Y", "person", "animal"}]

NullableObjectForm ==
    [fields |-> << <<ObjectField("o", 2, TRUE, FALSE)>>,
                   <<Plain("test1"), Plain("test2")>> >>,
     providers |-> <<>>,
     answers |-> {"a", "Y", "no", EOF}]

NullableObjectThenFieldForm ==
    [fields |-> << <<ObjectField("o", 2, TRUE, FALSE), Plain("after")>>,
                   <<Plain("test1")>> >>,
     providers |-> <<>>,
     answers |-> {"a", "Y", "no"}]

DefaultLastForm ==
    [fields |-> << <<SimpleField("test", "str", None, FALSE, FALSE, "done", TRUE)>> >>,
     providers |-> <<>>,
     answers |-> {"", "a", "b"}]

NullableDefaultLastForm ==
    [fields |-> << <<WithEntryHook(SimpleField("n", "bool", Bool(TRUE), TRUE, FALSE,
                                               "done", TRUE))>> >>,
     providers |-> <<>>,
     answers |-> {"", "a", "Y", "no", EOF}]

SequenceForm ==
    [fields |-> << <<SimpleField("test", "str", Callable(1), FALSE, FALSE, "done",
                                 FALSE)>> >>,
     providers |-> <<Provider(<<Str("one"), Str("two")>>, TRUE)>>,
     answers |-> {"", "a"}]

SequenceOnceForm ==
    [fields |-> << <<SimpleField("test", "str", Callable(1), FALSE, FALSE, "done",
                                 FALSE)>> >>,
     providers |-> <<Provider(<<Str("one"), Str("two")>>, FALSE)>>,
     answers |-> {"", "a"}]

SequenceEmptyForm ==
    [fields |-> << <<SimpleField("test", "str", Callable(1), FALSE, FALSE, "done",
                                 FALSE)>> >>,
     providers |-> <<Provider(<<>>, TRUE)>>,
     answers |-> {"", "a"}]

MultivalueObjectForm ==
    [fields |-> << <<ObjectField("test", 2, FALSE, TRUE)>>,
                   <<Plain("test1"), Plain("test2")>> >>,
     providers |-> <<>>,
     answers |-> {"Y", "no"}]

MultivalueNullableObjectForm ==
    [fields |-> << <<ObjectField("o", 2, TRUE, TRUE),
                     SimpleField("tags", "str", None, FALSE, TRUE, "done", FALSE)>>,
                   <<Plain("test1")>> >>,
     providers |-> <<>>,
     answers |-> {"Y", "no", "done"}]

NestedForm ==
    [fields |-> << <<ObjectField("o", 2, FALSE, FALSE), Plain("z")>>,
                   <<WithEntryHook(AutoUuidField("id")),
                     ObjectField("p", 3, FALSE, FALSE)>>,
                   <<Plain("x")>> >>,
     providers |-> <<>>,
     answers |-> {"a", "b"}]

RememberTagsForm ==
    [fields |-> << <<WithEntryHook(SimpleField("tags", "bool", None, FALSE, TRUE,
                                               "done", TRUE))>> >>,
     providers |-> <<>>,
     answers |-> {"", "Y", "no", "done"}]

\* a polymorphic field one of whose variants adds no field to the type selector
PolyBareForm ==
    [fields |-> << <<PolymorphicField("p", <<<<"person", 2>>, <<"animal", 3>>>>,
                                       FALSE, FALSE)>>,
                   <<TypeField, Plain("name")>>,
                   <<TypeField>> >>,
     providers |-> <<>>,
     answers |-> {"a", "person", "animal"}]

\* an object field whose form was given no field
EmptyObjectForm ==
    [fields |-> << <<ObjectField("o", 2, FALSE, FALSE), Plain("z")>>, <<>> >>,
     providers |-> <<>>,
     answers |-> {"a"}]

\* a nullable repeated object followed by a repeated object
DeclinedThenRepeatedForm ==
    [fields |-> << <<ObjectField("o", 2, TRUE, TRUE), ObjectField("p", 3, FALSE, TRUE)>>,
                   <<Plain("x")>>,
                   <<Plain("y")>> >>,
     providers |-> <<>>,
     answers |-> {"Y", "no"}]

\* a nullable repeated object followed by a scalar that is not repeated
DeclinedThenScalarForm ==
    [fields |-> << <<ObjectField("o", 2, TRUE, TRUE), Plain("name")>>,
                   <<Plain("x")>> >>,
     providers |-> <<>>,
     answers |-> {"Y", "no"}]

\* the form of test_done_hook_multivalue
DoneHookForm ==
    [fields |-> << <<WithDoneHook(ObjectField("test", 2, FALSE, TRUE))>>,
                   <<Plain("test1"), Plain("test2")>> >>,
     providers |-> <<>>,
     answers |-> {"Y", "no"}]

Schemas ==
    <<EmptyForm, PlainForm, TagsForm, PolyForm, NullableObjectForm,
      NullableObjectThenFieldForm, DefaultLastForm, NullableDefaultLastForm,
      SequenceForm, SequenceOnceForm, SequenceEmptyForm, MultivalueObjectForm,
      MultivalueNullableObjectForm, NestedForm, RememberTagsForm, PolyBareForm,
      EmptyObjectForm, DeclinedThenRepeatedForm, DoneHookForm,
      DeclinedThenScalarForm>>

\* -------------------------------------------------------------------- state
VARIABLES
    sid,               \* which of Schemas was built (fixed after construction)
    cursor,            \* Form._cursor of every form
    in_multivalue,     \* Form._in_multivalue of every form
    multivalue_index,  \* Form._multivalue_index of every form
    default,           \* f['default'] of every field of every form
    form,              \* f['form'] of every field of every form (0: none)
    sp_cursor,         \* SequenceProvider._cursor of every provider
    uuids,             \* identifiers generated so far
    hooked,            \* the entry hooks' calls of the current fill, in order
    pc,                \* "idle", "filling" (in fill's loop), "returned", "raised",
                       \* or "unbuilt" (the construction raised)
    filled,            \* fill's record: being built, then as returned
    log,               \* the questions of the current fill, in order
    last,              \* the latest _ask call: its result and its prompts
    fills,             \* fills started
    fields,            \* self.fields of a Form under construction
    order,             \* self.order of that Form
    call,              \* the latest add_* or remove call on it and how it ended
    args,              \* the arguments of a call of wrap or columns
    out,               \* what that call returned or raised, once it was made
    dataset,           \* dataset['events'] of a universe_collapse call
    frame,             \* the locals of that call, and how it ended
    wizahd,            \* the fields of a Wizahd
    did                \* the latest call on the Wizahd and how it ended

vars == <<sid, cursor, in_multivalue, multivalue_index, default, form, sp_cursor,
          uuids, hooked, pc, filled, log, last, fills, fields, order, call,
          args, out, dataset, frame, wizahd, did>>
\* the Form under construction
construction == <<fields, order, call>>
\* a call of the text layout functions
layout == <<args, out>>
\* a call of universe_collapse, and a Wizahd
collapsing == <<dataset, frame>>
narrating == <<wizahd, did>>

Schema == Schemas[sid]
Forms == 1..Len(Schema.fields)
Root == 1
\* self.order / self.fields of form fid, in insertion order
Fields(fid) == Schema.fields[fid]
\* len(self), len(self.order)
len(fid) == Len(Fields(fid))

\* the keyword parameters of add_object_field and add_polymorphic_object_field
\* besides name
object_field_parameters == {"nullable", "multivalue"}
\* whether every add_* call of the schema is a call Python accepts (a keyword
\* that is no parameter raises TypeError and the form is never built)
built ==
    \A fid \in Forms : \A i \in 1..len(fid) :
        Fields(fid)[i].field_type = "object" =>
            Fields(fid)[i].kwargs \subseteq object_field_parameters

\* the mutable part of the Form tree, as one value the operations transform
State ==
    [cursor |-> cursor, in_multivalue |-> in_multivalue,
     multivalue_index |-> multivalue_index, default |-> default, form |-> form,
     sp_cursor |-> sp_cursor, uuids |-> uuids, hooked |-> hooked]

NoAsk == [st |-> "none", path |-> <<>>, value |-> None, io |-> <<>>]
\* no call was made yet on the Form under construction
NoCall == [op |-> "none", outcome |-> "none"]
\* no text is being laid out
NoArgs == [op |-> "none"]
NoOutput == [outcome |-> "none"]
\* universe_collapse is not called; there is no Wizahd
NoFrame == [st |-> "none"]
NoWizahd == [cursor |-> -1, events |-> <<>>]

\* Form.__init__ for every form of the schema, and the add_* calls' f dicts
Constructed ==
    /\ sid \in 1..Len(Schemas)
    /\ cursor = [f \in Forms |-> NotStarted]
    /\ in_multivalue = [f \in Forms |-> FALSE]
    /\ multivalue_index = [f \in Forms |-> -1]
    /\ default = [f \in Forms |-> [i \in 1..len(f) |-> Fields(f)[i].default]]
    /\ form = [f \in Forms |-> [i \in 1..len(f) |-> Fields(f)[i].form]]
    /\ sp_cursor = [p \in 1..Len(Schema.providers) |-> 0]
    /\ uuids = 0
    /\ hooked = <<>>
    /\ pc = IF built THEN "idle" ELSE "unbuilt"
    /\ filled = EmptyDict
    /\ log = <<>>
    /\ last = NoAsk
    /\ fills = 0
    /\ fields = <<>>
    /\ order = <<>>
    /\ call = NoCall

\* a Form was constructed; no text is being laid out
Init ==
    /\ Constructed
    /\ args = NoArgs /\ out = NoOutput
    /\ dataset = <<>> /\ frame = NoFrame
    /\ wizahd = NoWizahd /\ did = NoCall

\* --------------------------------------------------------------- operations
\* the field at Python index i of form fid (a negative i counts from the end)
FieldAt(fid, i) == Fields(fid)[IF i < 0 THEN len(fid) + i + 1 ELSE i + 1]
Slot(fid, i) == IF i < 0 THEN len(fid) + i + 1 ELSE i + 1

\* Form._has_more_prompts comparing the position only
has_more_prompts_position_only(s, fid) == s.cursor[fid] < len(fid) - 1

\* Form._has_more_prompts
RECURSIVE has_more_prompts(_, _)
has_more_prompts(s, fid) ==
    IF len(fid) < 1 THEN FALSE
    ELSE IF s.cursor[fid] < len(fid) - 1 THEN TRUE
    ELSE IF s.cursor[fid] > len(fid) - 1 THEN FALSE
    ELSE LET f == FieldAt(fid, s.cursor[fid])
         IN \/ /\ f.field_type = "object"
               /\ has_more_prompts(s, s.form[fid][Slot(fid, s.cursor[fid])])
            \/ s.in_multivalue[fid]

\* the forms Form._reset visits from form fid: itself, and for every object
\* field the forms of all its types and its current f['form'], recursively
RECURSIVE reset_forms(_, _)
reset_forms(s, fid) ==
    {fid} \cup UNION {
        (IF Fields(fid)[i].polymorphic
         THEN UNION {reset_forms(s, Fields(fid)[i].types[k][2]) :
                        k \in 1..Len(Fields(fid)[i].types)}
         ELSE {})
        \cup reset_forms(s, s.form[fid][i]) :
        i \in {j \in 1..len(fid) : Fields(fid)[j].field_type = "object"}}

\* Form._reset without the descent into the object fields' forms
reset_shallow(s, fid) ==
    [s EXCEPT !.cursor[fid] = NotStarted, !.in_multivalue[fid] = FALSE,
              !.multivalue_index[fid] = -1]

\* Form._reset doing nothing
reset_nothing(s, fid) == s

\* Form._reset
reset(s, fid) ==
    LET R == reset_forms(s, fid)
    IN [s EXCEPT
          !.cursor = [g \in DOMAIN s.cursor |->
                        IF g \in R THEN NotStarted ELSE s.cursor[g]],
          !.in_multivalue = [g \in DOMAIN s.in_multivalue |->
                        IF g \in R THEN FALSE ELSE s.in_multivalue[g]],
          !.multivalue_index = [g \in DOMAIN s.multivalue_index |->
                        IF g \in R THEN -1 ELSE s.multivalue_index[g]]]

\* Form._cursor_to_end
cursor_to_end(s, fid) == [s EXCEPT !.cursor[fid] = len(fid) - 1]

\* SequenceProvider.__call__ never wrapping back to the first member
SequenceProvider_call_no_wrap(s, p) ==
    LET members == Schema.providers[p].members
        c == s.sp_cursor[p]
    IN IF c >= Len(members) THEN [item |-> None, s |-> s]
       ELSE [item |-> members[c + 1], s |-> [s EXCEPT !.sp_cursor[p] = c + 1]]

\* SequenceProvider.__call__: the item returned and the provider afterwards
SequenceProvider_call(s, p) ==
    LET members == Schema.providers[p].members
        c == s.sp_cursor[p]
        c1 == c + 1
    IN IF c >= Len(members) THEN [item |-> None, s |-> s]
       ELSE [item |-> members[c + 1],
             s |-> [s EXCEPT !.sp_cursor[p] =
                        IF c1 >= Len(members) /\ Schema.providers[p].repeat
                        THEN 0 ELSE c1]]

\* the converters: str, bool_conv and a choice field's choice_checker
ValueError == <<"ValueError">>
bool_conv(x) ==
    LET s == Lower(x)
    IN IF s \in {"yes", "y", "true", "t", "on"} THEN Bool(TRUE)
       ELSE IF s \in {"no", "n", "false", "f", "off"} THEN Bool(FALSE)
       ELSE ValueError
choice_checker(choices, x) == IF x \notin choices THEN ValueError ELSE Str(x)
type_conv(f, x) ==
    CASE f.type = "bool" -> bool_conv(x)
      [] f.type = "choice" -> choice_checker(f.choices, x)
      [] OTHER -> Str(x)

\* one exchange with the operator, as the log keeps it: the prompt (path,
\* default shown, notes), the answer, what became of it, and the Form state
\* when the prompt was shown
Exchange(kind, fid, index, path, dflt, nullable, sentinel, s) ==
    [kind |-> kind, form |-> fid, index |-> index, path |-> path,
     default |-> dflt, nullable |-> nullable, sentinel |-> sentinel,
     ans |-> "", res |-> "", snap |-> s]
Answered(q, a, res) == [q EXCEPT !.ans = a, !.res = res]

\* what an _ask call (or a step of it) comes to: st is "ok" or the exception
\* raised, s the Form state it leaves, io its exchanges with the operator
Result(st, s, path, value, io) ==
    [st |-> st, s |-> s, path |-> path, value |-> value, io |-> io]

\* the answers input() may return at a prompt
Answers == Schema.answers

\* the answers rejected so far in this fill, io being the current _ask's
rejections(io) ==
    Cardinality({i \in DOMAIN io : io[i].res \in {"rejected", "invalid"}})
    + Cardinality({i \in DOMAIN log : log[i].res \in {"rejected", "invalid"}})

\* Every operation that prompts is the set of the results it can come to, one
\* for each way the operator may answer.

\* a confirmation that takes any answer
is_choice_any(a) == TRUE

\* entry.get_choice as confirm calls it: the lowered answer is a choice
is_choice(a) == Lower(a) \in {"y", "n", "yes", "no"}

\* entry.confirm: asks until the answer is y, n, yes or no
RECURSIVE confirm(_, _, _)
confirm(q, s, io) ==
    UNION {
        IF a = EOF
        THEN {Result("EOFError", s, <<>>, None, Append(io, Answered(q, a, "eof")))}
        ELSE IF is_choice(a)
        THEN {Result("ok", s, <<>>, Bool(Lower(a) = "y" \/ Lower(a) = "yes"),
                     Append(io, Answered(q, a,
                         IF Lower(a) = "y" \/ Lower(a) = "yes" THEN "yes" ELSE "no")))}
        ELSE IF rejections(io) >= MaxRetries THEN {}
        ELSE confirm(q, s, Append(io, Answered(q, a, "invalid"))) :
        a \in Answers}

\* an entry hook that is not called with None
entry_hook_skips_null(s, fid, index, value) ==
    IF FieldAt(fid, index).entry_hook /\ value # None
    THEN [s EXCEPT !.hooked = Append(@, <<fid, index, value>>)] ELSE s

\* `if f['entry_hook'] is not None: f['entry_hook'](value)`
entry_hook(s, fid, index, value) ==
    IF FieldAt(fid, index).entry_hook
    THEN [s EXCEPT !.hooked = Append(@, <<fid, index, value>>)] ELSE s

\* _ask, 'autouuid' branch: no prompt, a fresh identifier
ask_autouuid(s, fid, index, path_comps, io) ==
    LET f == FieldAt(fid, index)
        value == Uuid(s.uuids + 1)
        path == IF f.multivalue
                THEN Append(path_comps, Idx(s.multivalue_index[fid]))
                ELSE path_comps
        shown == Answered(Exchange("auto", fid, index, path, None, FALSE, None, s),
                          "", "generated")
    IN {Result("ok", entry_hook([s EXCEPT !.uuids = @ + 1], fid, index, value),
               path, value, Append(io, shown))}

\* _ask, 'simple' branch after the input loop, never remembering the value
simple_accept_forgets(s, fid, index, path_comps, value, io) ==
    Result("ok", entry_hook(s, fid, index, value),
           IF FieldAt(fid, index).multivalue
           THEN Append(path_comps, Idx(s.multivalue_index[fid])) ELSE path_comps,
           value, io)

\* _ask, 'simple' branch after the input loop: the value is valid
simple_accept(s, fid, index, path_comps, value, io) ==
    LET f == FieldAt(fid, index)
        path == IF f.multivalue
                THEN Append(path_comps, Idx(s.multivalue_index[fid]))
                ELSE path_comps
        s0 == entry_hook(s, fid, index, value)
        s1 == IF f.default_last_entered
              THEN [s0 EXCEPT !.default[fid][Slot(fid, index)] = value]
              ELSE s0
    IN Result("ok", s1, path, value, io)

\* the sentinel reported as a null value of the field itself
simple_sentinel_nulls_field(s, fid, path_comps, io) ==
    Result("ok",
           [s EXCEPT !.in_multivalue[fid] = FALSE, !.multivalue_index[fid] = -1],
           path_comps, None, io)

\* _ask, 'simple' branch, the sentinel was typed: the repetition is closed
simple_sentinel(s, fid, path_comps, io) ==
    Result("ok",
           [s EXCEPT !.in_multivalue[fid] = FALSE, !.multivalue_index[fid] = -1],
           Append(path_comps, IdxNone), None, io)

\* a rejected answer that moves the position on
after_rejected_advances(s, fid) == [s EXCEPT !.cursor[fid] = @ + 1]

\* what a rejected answer leaves of the Form state (the except branch prints)
after_rejected(s, fid) == s

\* a blank answer taken for the default only when there is one
blank_accepts_default_only(f, default_value) == default_value # None

\* `if f['nullable'] or default_value is not None` under `if str_input == ""`
blank_accepts(f, default_value) == f.nullable \/ default_value # None

\* an explicit null that takes the default shown
explicit_null_takes_default(f, default_value) == default_value

\* _ask, 'simple' branch, `except EOFError` on a nullable field: the value
explicit_null(f, default_value) == None

\* _ask, 'simple' branch: the `while not got_valid` loop, one pass per answer
RECURSIVE simple_loop(_, _, _, _, _, _, _)
simple_loop(s, fid, index, path_comps, full_path, default_value, io) ==
    LET f == FieldAt(fid, index)
        fp == IF s.in_multivalue[fid]
              THEN Append(full_path, Idx(s.multivalue_index[fid]))
              ELSE full_path
        q == Exchange("input", fid, index, fp, default_value, f.nullable,
                      IF f.multivalue THEN Str(f.sentinel) ELSE None, s)
    IN UNION {
        IF a = EOF
        THEN IF f.nullable
             THEN {simple_accept(s, fid, index, path_comps,
                                 explicit_null(f, default_value),
                                 Append(io, Answered(q, a, "null")))}
             ELSE {Result("EOFError", s, <<>>, None,
                          Append(io, Answered(q, a, "eof")))}
        ELSE IF a = "" /\ blank_accepts(f, default_value)
        THEN {simple_accept(s, fid, index, path_comps, default_value,
                            Append(io, Answered(q, a, "default")))}
        ELSE IF f.multivalue /\ a = f.sentinel
        THEN {simple_sentinel(s, fid, path_comps,
                              Append(io, Answered(q, a, "sentinel")))}
        ELSE IF type_conv(f, a) = ValueError
        THEN IF rejections(io) >= MaxRetries THEN {}
             ELSE simple_loop(after_rejected(s, fid), fid, index, path_comps, fp,
                              default_value, Append(io, Answered(q, a, "rejected")))
        ELSE {simple_accept(s, fid, index, path_comps, type_conv(f, a),
                            Append(io, Answered(q, a, "accepted")))} :
        a \in Answers}

\* _ask, 'simple' branch: the default is computed once, before the loop
ask_simple(s, fid, index, path_comps, io) ==
    LET d == s.default[fid][Slot(fid, index)]
        called == SequenceProvider_call(s, d[2])
    IN IF d # None /\ callable(d)
       THEN simple_loop(called.s, fid, index, path_comps, path_comps, called.item, io)
       ELSE simple_loop(s, fid, index, path_comps, path_comps, d, io)

\* f['types'][value]: the form of a type tag, 0 when the lookup fails
type_form(f, value) ==
    LET hits == {k \in 1..Len(f.types) : Str(f.types[k][1]) = value}
    IN IF hits = {} THEN 0 ELSE f.types[CHOOSE k \in hits : TRUE][2]

\* _ask, 'object' branch after subform._ask returned r: the polymorphic swap,
\* then the reset of a finished repetition (KeyError: r.value is no type tag)
object_after(fid, index, subform, r) ==
    LET f == FieldAt(fid, index)
        s == r.s
        swap == f.polymorphic /\ s.cursor[subform] = 0
        selected == type_form(f, r.value)
        placed == [reset(s, selected) EXCEPT !.cursor[selected] = 0,
                                              !.form[fid][Slot(fid, index)] = selected]
        swapped == IF ~has_more_prompts(placed, selected)
                   THEN reset(placed, selected) ELSE placed
        s1 == IF swap THEN swapped ELSE s
    IN IF r.st # "ok" THEN r
       ELSE IF swap /\ selected = 0 THEN [r EXCEPT !.st = "KeyError"]
       ELSE [r EXCEPT !.s = IF s1.in_multivalue[fid] /\ ~has_more_prompts(s1, subform)
                            THEN reset(s1, subform) ELSE s1]

\* what "no" to "Enter another one?" does to the parent form
close_list(s, fid) ==
    [s EXCEPT !.in_multivalue[fid] = FALSE, !.cursor[fid] = @ + 1]

\* "no" to "Enter value for it?" leaving every cursor where it was
decline_value_stays(s, fid, subform) == s

\* what "no" to "Enter value for it?" does to the parent form and the subform
decline_value(s, fid, subform) ==
    [(IF s.in_multivalue[fid] THEN reset(s, subform) ELSE cursor_to_end(s, subform))
        EXCEPT !.cursor[fid] = @ + 1]

RECURSIVE ask(_, _, _, _)

\* _ask, 'object' branch from the "Enter value for it?" question on, `more`
\* being how the "Enter another one?" question ended
object_value(s, fid, index, path_comps, more) ==
    LET f == FieldAt(fid, index)
        subform == s.form[fid][Slot(fid, index)]
        comps == IF f.multivalue
                 THEN Append(path_comps, Idx(s.multivalue_index[fid]))
                 ELSE path_comps
        enters == IF f.nullable /\ s.cursor[subform] = -1
                  THEN confirm(Exchange("null", fid, index, comps, None, FALSE,
                                        None, s), s, more.io)
                  ELSE {more}
    IN UNION {
        IF enter.st # "ok" THEN {enter}
        ELSE IF enter.value = Bool(FALSE)
        THEN {Result("ok", decline_value(s, fid, subform), comps, None, enter.io)}
        ELSE {object_after(fid, index, subform, r) :
                 r \in ask(s, subform, comps, enter.io)} :
        enter \in enters}

\* _ask, 'object' branch
ask_object(s, fid, index, path_comps, io) ==
    LET f == FieldAt(fid, index)
        subform == s.form[fid][Slot(fid, index)]
        mores == IF f.multivalue /\ s.cursor[subform] = -1
                 THEN confirm(Exchange("more", fid, index, path_comps, None, FALSE,
                                       None, s), s, io)
                 ELSE {Result("ok", s, <<>>, Bool(TRUE), io)}
    IN UNION {
        IF more.st # "ok" THEN {more}
        ELSE IF more.value = Bool(FALSE)
        THEN {Result("ok", close_list(s, fid), Append(path_comps, IdxNone), None,
                     more.io)}
        ELSE object_value(s, fid, index, path_comps, more) :
        more \in mores}

\* _ask moving on from an object field whose form still has questions
next_index_leaves_object(s, fid) ==
    IF ~s.in_multivalue[fid] THEN s.cursor[fid] + 1 ELSE s.cursor[fid]

\* _ask never moving from the field it is on
next_index_stays(s, fid) == IF s.cursor[fid] < 0 THEN 0 ELSE s.cursor[fid]

\* _ask: the index of the field to ask about
next_index(s, fid) ==
    LET c == s.cursor[fid]
    IN IF c > -1 /\ c < len(fid)
       THEN IF /\ \/ FieldAt(fid, c).field_type # "object"
                  \/ ~has_more_prompts(s, s.form[fid][Slot(fid, c)])
               /\ ~s.in_multivalue[fid]
            THEN c + 1 ELSE c
       ELSE IF ~s.in_multivalue[fid] THEN c + 1 ELSE c

\* _ask: entering or continuing a multivalue field
enter_multivalue(s, fid, index) ==
    LET f == FieldAt(fid, index)
        s1 == IF f.multivalue /\ ~s.in_multivalue[fid]
              THEN [s EXCEPT !.in_multivalue[fid] = TRUE,
                             !.multivalue_index[fid] = -1]
              ELSE s
    IN IF /\ f.multivalue
          /\ \/ f.field_type # "object"
             \/ s1.cursor[s1.form[fid][Slot(fid, index)]] = -1
       THEN [s1 EXCEPT !.multivalue_index[fid] = @ + 1]
       ELSE s1

\* Form._ask(parents): the results it can come to from state s
ask(s, fid, parents, io) ==
    IF len(fid) < 1 THEN {Result("ValueError", s, <<>>, None, io)}
    ELSE LET index == next_index(s, fid)
             f == FieldAt(fid, index)
             s1 == enter_multivalue([s EXCEPT !.cursor[fid] = index], fid, index)
             path_comps == Append(parents, Key(f.name))
         IN IF index >= len(fid) THEN {Result("ValueError", s, <<>>, None, io)}
            ELSE CASE f.field_type = "autouuid" ->
                        ask_autouuid(s1, fid, index, path_comps, io)
                   [] f.field_type = "simple" ->
                        ask_simple(s1, fid, index, path_comps, io)
                   [] OTHER ->
                        ask_object(s1, fid, index, path_comps, io)

\* ------------------------------------------------------------ result record
has_key(d, k) == \E i \in DOMAIN d[2] : d[2][i] = k
get_item(d, k) == d[3][CHOOSE i \in DOMAIN d[2] : d[2][i] = k]
set_item(d, k, v) ==
    IF has_key(d, k)
    THEN <<"dict", d[2], [i \in DOMAIN d[3] |-> IF d[2][i] = k THEN v ELSE d[3][i]]>>
    ELSE <<"dict", Append(d[2], k), Append(d[3], v)>>

\* items, appended to with v until it has n elements
RECURSIVE grown(_, _, _)
grown(items, n, v) == IF Len(items) >= n THEN items ELSE grown(Append(items, v), n, v)

\* fill, `if field_name == '[None]': continue`: what the container that the
\* walk reached becomes when the path ends in the marker
marker_appends_null(cur) == IF IsList(cur) THEN <<"list", Append(cur[2], None)>> ELSE cur
marker_last(cur) == cur

\* fill, the body of `for idx, field_name in enumerate(path)`: the container
\* cur after path[idx..] was walked and value stored; Raised when Python
\* raises on the way
RECURSIVE fold(_, _, _, _)
fold(cur, path, idx, value) ==
    LET field_name == path[idx]
        is_last == idx >= Len(path)
        fresh == IF startswith_bracket(path[idx + 1]) THEN EmptyList ELSE EmptyDict
        items == grown(cur[2], field_name[2] + 1, fresh)
        at_index == fold(items[field_name[2] + 1], path, idx + 1, value)
        at_name == fold(IF has_key(cur, field_name[2])
                        THEN get_item(cur, field_name[2]) ELSE fresh,
                        path, idx + 1, value)
    IN IF is_last
       THEN IF startswith_bracket(field_name)
            THEN IF field_name = IdxNone THEN marker_last(cur)
                 ELSE IF IsList(cur)
                 THEN IF Len(cur[2]) <= field_name[2]
                      THEN <<"list", Append(grown(cur[2], field_name[2], None), value)>>
                      ELSE cur
                 ELSE IF IsDict(cur) /\ Len(cur[2]) > field_name[2] THEN cur
                 ELSE Raised
            ELSE IF IsDict(cur) THEN set_item(cur, field_name[2], value) ELSE Raised
       ELSE IF startswith_bracket(field_name)
            THEN IF field_name = IdxNone \/ ~IsList(cur) THEN Raised
                 ELSE IF at_index = Raised THEN Raised
                 ELSE <<"list", [items EXCEPT ![field_name[2] + 1] = at_index]>>
            ELSE IF ~IsDict(cur) \/ at_name = Raised THEN Raised
                 ELSE set_item(cur, field_name[2], at_name)

\* ------------------------------------------------------------------ actions
within_bounds(r) ==
    /\ \A i \in DOMAIN r.path : r.path[i][1] = "idx" => r.path[i][2] <= MaxIndex
    /\ Len(log) + Len(r.io) <= MaxQuestions

\* what the per-fill log keeps of an exchange
Logged(e) == [kind |-> e.kind, form |-> e.form, index |-> e.index, path |-> e.path,
              ans |-> e.ans, res |-> e.res]
LogOf(io) == [i \in DOMAIN io |-> Logged(io[i])]

Becomes(s) ==
    /\ cursor' = s.cursor
    /\ in_multivalue' = s.in_multivalue
    /\ multivalue_index' = s.multivalue_index
    /\ default' = s.default
    /\ form' = s.form
    /\ sp_cursor' = s.sp_cursor
    /\ uuids' = s.uuids
    /\ hooked' = s.hooked

Asked(r) == [st |-> r.st, path |-> r.path, value |-> r.value, io |-> r.io]

\* whether a pass of fill's loop raises: in _ask, or while folding its result
raises(r) == IF r.st # "ok" THEN TRUE ELSE fold(filled, r.path, 1, r.value) = Raised

\* fill is called: an empty form returns {} at once, else the loop is entered
FillBegin ==
    /\ pc \in {"idle", "returned"}
    /\ fills < MaxFills
    /\ fills' = fills + 1
    /\ filled' = EmptyDict
    /\ log' = <<>>
    /\ last' = NoAsk
    /\ hooked' = <<>>
    /\ pc' = IF len(Root) < 1 THEN "returned" ELSE "filling"
    /\ UNCHANGED <<sid, cursor, in_multivalue, multivalue_index, default, form,
                   sp_cursor, uuids, construction, layout, collapsing,
                   narrating>>

\* one pass of fill's loop: _ask returns (path, value), folded into filled;
\* when _ask or the folding raises, the exception leaves fill and ends the
\* program (cherub.py main) and no record is returned
Ask ==
    /\ pc = "filling"
    /\ has_more_prompts(State, Root)
    /\ \E r \in ask(State, Root, <<>>, <<>>) :
         /\ within_bounds(r)
         /\ Becomes(r.s)
         /\ log' = log \o LogOf(r.io)
         /\ IF raises(r)
            THEN /\ last' = [Asked(r) EXCEPT
                                !.st = IF r.st = "ok" THEN "TypeError" ELSE r.st]
                 /\ filled' = None
                 /\ pc' = "raised"
            ELSE /\ last' = Asked(r)
                 /\ filled' = fold(filled, r.path, 1, r.value)
                 /\ pc' = "filling"
    /\ UNCHANGED <<sid, fills, construction, layout, collapsing,
                   narrating>>

\* fill's loop is over: self._reset(), return filled
FillReturn ==
    /\ pc = "filling"
    /\ ~has_more_prompts(State, Root)
    /\ Becomes(reset(State, Root))
    /\ pc' = "returned"
    /\ UNCHANGED <<sid, filled, log, last, fills, construction, layout, collapsing,
                   narrating>>

Next == FillBegin \/ Ask \/ FillReturn

Spec == Init /\ [][Next]_vars

\* fill is called again on a Form whose previous fill was left by an exception
\* (nothing ran after the raise: the state is as the raise left it)
FillAfterRaise ==
    /\ pc = "raised"
    /\ fills < MaxFills
    /\ fills' = fills + 1
    /\ filled' = EmptyDict
    /\ log' = <<>>
    /\ last' = NoAsk
    /\ hooked' = <<>>
    /\ pc' = "filling"
    /\ UNCHANGED <<sid, cursor, in_multivalue, multivalue_index, default, form,
                   sp_cursor, uuids, construction, layout, collapsing,
                   narrating>>

NextCaught == Next \/ FillAfterRaise

\* a caller that catches what fill raises and fills the same Form again
SpecCaught == Init /\ [][NextCaught]_vars

\* ------------------------------------------------------- schema construction
\* A name is the sequence of its characters.
Letters == {"a", "b", "e", "p", "t", "y"}
Digits == {"1"}
\* the names the add_* and remove calls are made with
Names == {<<"a">>, <<"$", "1">>, <<"a", " ">>, <<>>, <<"1", "a">>}
\* type_field of add_polymorphic_object_field, as defaulted
type_field == <<"t", "y", "p", "e">>

\* _identifier_re: the class of the first character and of the following ones
identifier_first == Letters \cup {"-", "_", "$"}
identifier_rest == identifier_first \cup Digits
NoMatch == <<"nomatch">>
\* the longest run of name[i..] within identifier_rest
RECURSIVE run(_, _)
run(name, i) ==
    IF i <= Len(name) /\ name[i] \in identifier_rest
    THEN <<name[i]>> \o run(name, i + 1) ELSE <<>>
\* _identifier_re.match(name): the text matched at the start of name, or None
re_match(name) ==
    IF name # <<>> /\ name[1] \in identifier_first
    THEN <<name[1]>> \o run(name, 2) ELSE NoMatch

\* the Form under construction as one value, and what a call comes to
Form == [fields |-> fields, order |-> order]
Done(b) == [b |-> b, outcome |-> "ok"]
Raise(b, exc) == [b |-> b, outcome |-> exc]
\* self.fields[name] = f; self.order.append(name)
stored(b, name, f) ==
    [fields |-> [n \in DOMAIN b.fields \cup {name} |->
                    IF n = name THEN f ELSE b.fields[n]],
     order |-> Append(b.order, name)]

\* Form.add_auto_uuid_field
add_auto_uuid_field(b, name) ==
    IF name \in DOMAIN b.fields THEN Raise(b, "ValueError")
    ELSE IF re_match(name) = NoMatch THEN Raise(b, "ValueError")
    ELSE Done(stored(b, name, [field_type |-> "autouuid", polymorphic |-> FALSE]))

\* Form.add_field
add_field(b, name, multivalue, sentinel) ==
    IF name \in DOMAIN b.fields THEN Raise(b, "ValueError")
    ELSE IF re_match(name) = NoMatch THEN Raise(b, "ValueError")
    ELSE IF multivalue /\ sentinel = "" THEN Raise(b, "ValueError")
    ELSE Done(stored(b, name, [field_type |-> "simple", polymorphic |-> FALSE]))

\* add_choice_field without the test of the sentinel against the choices
add_choice_field_any_sentinel(b, name, choices, dflt, multivalue, sentinel) ==
    IF dflt # None /\ dflt[2] \notin choices THEN Raise(b, "ValueError")
    ELSE add_field(b, name, multivalue, sentinel)

\* `sentinel: str = "done"`, the sentinel of a field declared without one
default_sentinel == "done"

\* Form.add_choice_field
add_choice_field(b, name, choices, dflt, multivalue, sentinel) ==
    IF multivalue /\ sentinel \in choices THEN Raise(b, "ValueError")
    ELSE IF dflt # None /\ dflt[2] \notin choices THEN Raise(b, "ValueError")
    ELSE add_field(b, name, multivalue, sentinel)

\* add_object_field without the test for a field of that name
add_object_field_unchecked(b, name) ==
    IF re_match(name) = NoMatch THEN Raise(b, "ValueError")
    ELSE Done(stored(b, name, [field_type |-> "object", polymorphic |-> FALSE]))

\* Form.add_object_field
add_object_field(b, name) ==
    IF name \in DOMAIN b.fields THEN Raise(b, "ValueError")
    ELSE IF re_match(name) = NoMatch THEN Raise(b, "ValueError")
    ELSE Done(stored(b, name, [field_type |-> "object", polymorphic |-> FALSE]))

\* Form(...), a Form as constructed
NewForm == [fields |-> <<>>, order |-> <<>>]
\* the elements of a list as a set
elements(list) == {list[i] : i \in DOMAIN list}

\* a loop that looks at the first choice only
blank_choice_first_only(type_choices) == type_choices # <<>> /\ type_choices[1] = ""

\* `for ch in type_choices: if ch == "": raise ValueError(...)`
blank_choice(type_choices) == "" \in elements(type_choices)

\* Form.add_polymorphic_object_field; the `for ch in type_choices` loop
\* raises at a blank choice or when adding the type field to a subform does
add_polymorphic_object_field(b, name, type_choices, default_type) ==
    LET subform == add_choice_field(NewForm, type_field, elements(type_choices),
                                    default_type, FALSE, default_sentinel)
    IN IF name \in DOMAIN b.fields THEN Raise(b, "ValueError")
       ELSE IF re_match(name) = NoMatch THEN Raise(b, "ValueError")
       ELSE IF re_match(type_field) = NoMatch THEN Raise(b, "ValueError")
       ELSE IF default_type # None /\ default_type[2] \notin elements(type_choices)
       THEN Raise(b, "ValueError")
       ELSE IF Len(type_choices) < 2 THEN Raise(b, "ValueError")
       ELSE IF Cardinality(elements(type_choices)) # Len(type_choices)
       THEN Raise(b, "ValueError")
       ELSE IF blank_choice(type_choices) THEN Raise(b, "ValueError")
       ELSE IF subform.outcome # "ok" THEN Raise(b, subform.outcome)
       ELSE Done(stored(b, name, [field_type |-> "object", polymorphic |-> TRUE]))

\* Form.remove: its body reads `name`, which is bound nowhere
remove(b, field_name) == Raise(b, "NameError")

\* the calls made: the arguments that the add_* methods look at
SimpleCalls ==
    {[op |-> "add_field", multivalue |-> m[1], sentinel |-> m[2]] :
        m \in {<<FALSE, "">>, <<TRUE, "">>, <<TRUE, "done">>}}
ChoiceCalls ==
    {[op |-> "add_choice_field", choices |-> {"x", "done"}, default |-> m[3],
      multivalue |-> m[1], sentinel |-> m[2]] :
        m \in {<<FALSE, "done", None>>, <<TRUE, "done", None>>, <<TRUE, "end", None>>,
               <<TRUE, "", None>>, <<FALSE, "end", Str("z")>>}}
PolymorphicCalls ==
    {[op |-> "add_polymorphic_object_field", type_choices |-> m[1],
      default_type |-> m[2], multivalue |-> m[3]] :
        m \in {<<<<"x">>, None, FALSE>>, <<<<"x", "y">>, None, FALSE>>,
               <<<<"x", "x">>, None, FALSE>>, <<<<"x", "">>, None, FALSE>>,
               <<<<"done", "x">>, None, TRUE>>, <<<<"x", "y">>, Str("z"), FALSE>>,
               <<<<"x", "y">>, Str("x"), TRUE>>}}

\* a call ends: the Form becomes what the call left, the call is recorded
Ends(c, name, r) ==
    /\ fields' = r.b.fields
    /\ order' = r.b.order
    /\ call' = [name |-> name, outcome |-> r.outcome] @@ c
    /\ UNCHANGED <<sid, cursor, in_multivalue, multivalue_index, default, form,
                   sp_cursor, uuids, hooked, pc, filled, log, last, fills,
                   layout, collapsing, narrating>>

AddAutoUuidField ==
    \E name \in Names :
        Ends([op |-> "add_auto_uuid_field"], name, add_auto_uuid_field(Form, name))
AddField ==
    \E name \in Names, c \in SimpleCalls :
        Ends(c, name, add_field(Form, name, c.multivalue, c.sentinel))
AddChoiceField ==
    \E name \in Names, c \in ChoiceCalls :
        Ends(c, name, add_choice_field(Form, name, c.choices, c.default,
                                       c.multivalue, c.sentinel))
AddObjectField ==
    \E name \in Names :
        Ends([op |-> "add_object_field"], name, add_object_field(Form, name))
AddPolymorphicObjectField ==
    \E name \in Names, c \in PolymorphicCalls :
        Ends(c, name, add_polymorphic_object_field(Form, name, c.type_choices,
                                                   c.default_type))
Remove ==
    \E name \in Names :
        Ends([op |-> "remove"], name, remove(Form, name))

NextConstruction ==
    \/ AddAutoUuidField
    \/ AddField
    \/ AddChoiceField
    \/ AddObjectField
    \/ AddPolymorphicObjectField
    \/ Remove

\* a Form is constructed and fields are added to it, before any fill
InitConstruction == Init /\ sid = 1
SpecConstruction == InitConstruction /\ [][NextConstruction]_vars

\* -------------------------------------------------------------- text layout
\* a str is the sequence of its characters
NL == "\n"
Alphabet == {"a", " ", NL}
\* the longest text wrap is called with, and the longest text of a column
MaxText == 5
MaxColumnText == 3
RECURSIVE StringsUpTo(_)
StringsUpTo(n) ==
    IF n = 0 THEN {<<>>}
    ELSE LET shorter == StringsUpTo(n - 1)
         IN shorter \cup {Append(x, c) : x \in shorter, c \in Alphabet}
Texts == StringsUpTo(MaxText)
ColumnTexts == StringsUpTo(MaxColumnText)
Widths == 1..3
ColumnWidths == 2..4

\* ' ' * n
spaces(n) == [i \in 1..n |-> " "]
\* what a call comes to: the str returned, or the exception raised
returned(v) == [outcome |-> "ok", value |-> v]
thrown(exc) == [outcome |-> exc]

\* _space_runs_re.sub(' ', s): every run of two or more spaces becomes one
RECURSIVE space_runs_sub(_)
space_runs_sub(s) ==
    IF Len(s) < 2 THEN s
    ELSE IF s[1] = " " /\ s[2] = " " THEN space_runs_sub(Tail(s))
    ELSE <<s[1]>> \o space_runs_sub(Tail(s))

\* s.split(sep) for a one-character sep
RECURSIVE split(_, _)
split(s, sep) ==
    LET at == {i \in 1..Len(s) : s[i] = sep}
    IN IF at = {} THEN <<s>>
       ELSE LET i == CHOOSE k \in at : \A m \in at : k <= m
            IN <<SubSeq(s, 1, i - 1)>> \o split(SubSeq(s, i + 1, Len(s)), sep)

\* sep.join(parts)
RECURSIVE join(_, _)
join(parts, sep) ==
    IF parts = <<>> THEN <<>>
    ELSE IF Len(parts) = 1 THEN parts[1]
    ELSE parts[1] \o <<sep>> \o join(Tail(parts), sep)

\* _append_word_to_line: the lines as appended to and the line returned (its
\* callers pass a width of 2 or more)
RECURSIVE append_word_to_line(_, _, _, _)
append_word_to_line(lines, word, line, width) ==
    IF Len(word) = 0 THEN [lines |-> lines, line |-> line]
    ELSE LET added_chars == Len(word) + (IF Len(line) # 0 THEN 1 ELSE 0)
             spaced == IF Len(line) # 0 THEN Append(line, " ") ELSE line
         IN IF Len(line) + added_chars = width
            THEN [lines |-> Append(lines, spaced \o word), line |-> <<>>]
            ELSE IF Len(line) + added_chars > width
            THEN IF Len(line) = 0
                 THEN append_word_to_line(
                          Append(lines, Append(SubSeq(word, 1, width - 1), "-")),
                          SubSeq(word, width, Len(word)), <<>>, width)
                 ELSE append_word_to_line(Append(lines, line), word, <<>>, width)
            ELSE [lines |-> lines, line |-> spaced \o word]

\* the body of wrap's loop over existing_blocks: the lines of one block
RECURSIVE wrap_block(_, _, _, _, _)
wrap_block(block, lines, cur_word, cur_line, width) ==
    IF block = <<>>
    THEN LET r == IF cur_word # <<>>
                  THEN append_word_to_line(lines, cur_word, cur_line, width)
                  ELSE [lines |-> lines, line |-> cur_line]
         IN IF r.line # <<>> THEN Append(r.lines, r.line) ELSE r.lines
    ELSE IF block[1] = " "
    THEN LET r == append_word_to_line(lines, cur_word, cur_line, width)
         IN wrap_block(Tail(block), r.lines, <<>>, r.line, width)
    ELSE wrap_block(Tail(block), lines, Append(cur_word, block[1]), cur_line, width)

\* completed_block_lines after the loop over existing_blocks
RECURSIVE completed_block_lines(_, _)
completed_block_lines(existing_blocks, width) ==
    IF existing_blocks = <<>> THEN <<>>
    ELSE wrap_block(existing_blocks[1], <<>>, <<>>, <<>>, width)
             \o completed_block_lines(Tail(existing_blocks), width)

\* wrap
wrap(s, width, extend) ==
    IF width < 2 THEN thrown("ValueError")
    ELSE IF s = <<>> THEN returned(IF extend THEN spaces(width) ELSE s)
    ELSE LET completed == completed_block_lines(split(space_runs_sub(s), NL), width)
             extended == [i \in DOMAIN completed |->
                             completed[i] \o spaces(width - Len(completed[i]))]
         IN returned(join(IF extend THEN extended ELSE completed, NL))

\* columns
columns(left, left_width, right, right_width, extend_right, sep, sep_padding) ==
    IF left_width - sep_padding < 2 THEN thrown("ValueError")
    ELSE IF right_width - sep_padding < 2 THEN thrown("ValueError")
    ELSE LET wrapped_left == wrap(left, left_width - sep_padding, TRUE).value
             wrapped_right == wrap(right, right_width - sep_padding, extend_right).value
             left_split == split(wrapped_left, NL)
             right_split == split(wrapped_right, NL)
             n == IF Len(left_split) < Len(right_split)
                  THEN Len(right_split) ELSE Len(left_split)
             left_blank == spaces(left_width - sep_padding)
             right_blank == IF extend_right THEN spaces(right_width - sep_padding)
                            ELSE <<>>
             left_lines == [i \in 1..n |-> IF i <= Len(left_split)
                                           THEN left_split[i] ELSE left_blank]
             right_lines == [i \in 1..n |-> IF i <= Len(right_split)
                                            THEN right_split[i] ELSE right_blank]
             finished_lines ==
                 [i \in 1..n |->
                     left_lines[i] \o spaces(sep_padding) \o sep
                         \o (IF Len(right_lines[i]) > 0
                             THEN spaces(sep_padding) \o right_lines[i] ELSE <<>>)]
         IN returned(join(finished_lines, NL))

\* the calls made: wrap with every text and width, columns with the default
\* separator and padding
WrapCalls ==
    [op : {"wrap"}, s : Texts, width : Widths, extend : BOOLEAN]
ColumnsCalls ==
    [op : {"columns"}, left : ColumnTexts, left_width : ColumnWidths,
     right : ColumnTexts, right_width : ColumnWidths, extend_right : BOOLEAN]

\* the arguments of one call are chosen; the call is still to be made
InitLayout ==
    /\ Constructed
    /\ sid = 1
    /\ args \in WrapCalls \cup ColumnsCalls
    /\ out = NoOutput
    /\ dataset = <<>> /\ frame = NoFrame
    /\ wizahd = NoWizahd /\ did = NoCall

Wrap ==
    /\ args.op = "wrap"
    /\ out = NoOutput
    /\ out' = wrap(args.s, args.width, args.extend)
    /\ UNCHANGED <<sid, cursor, in_multivalue, multivalue_index, default, form,
                   sp_cursor, uuids, hooked, pc, filled, log, last, fills,
                   construction, args, collapsing, narrating>>
Columns ==
    /\ args.op = "columns"
    /\ out = NoOutput
    /\ out' = columns(args.left, args.left_width, args.right, args.right_width,
                      args.extend_right, <<"|">>, 1)
    /\ UNCHANGED <<sid, cursor, in_multivalue, multivalue_index, default, form,
                   sp_cursor, uuids, hooked, pc, filled, log, last, fills,
                   construction, args, collapsing, narrating>>

NextLayout ==
    \/ Wrap
    \/ Columns

\* one call of wrap or of columns
SpecLayout == InitLayout /\ [][NextLayout]_vars

\* ------------------------------------------------------------------- claims
\* the exchanges of the current fill that were not a rejected answer
Kept == SelectSeq(log, LAMBDA e : e.res \notin {"rejected", "invalid"})
\* the exchanges of the current fill about the field at slot i of form fid
About(fid, i) ==
    SelectSeq(log, LAMBDA e : e.kind = "input" /\ e.form = fid /\ e.index = i - 1)
\* the value the record holds at a path, None when it holds nothing there
RECURSIVE value_at(_, _, _)
value_at(cur, path, idx) ==
    IF idx > Len(path) THEN cur
    ELSE IF path[idx][1] = "key"
    THEN IF IsDict(cur) /\ has_key(cur, path[idx][2])
         THEN value_at(get_item(cur, path[idx][2]), path, idx + 1) ELSE None
    ELSE IF IsList(cur) /\ path[idx][1] = "idx" /\ Len(cur[2]) > path[idx][2]
         THEN value_at(cur[2][path[idx][2] + 1], path, idx + 1) ELSE None
\* path q goes strictly below path p
Below(q, p) == Len(q) > Len(p) /\ SubSeq(q, 1, Len(p)) = p
\* a fill is under way or has returned its record
InFill == fills > 0 /\ pc \in {"filling", "returned"}

\* a Schema made only of plain scalar fields
PlainSchema ==
    /\ Len(Schema.fields) = 1
    /\ len(Root) >= 1
    /\ \A i \in 1..len(Root) :
          /\ Fields(Root)[i].field_type = "simple"
          /\ ~Fields(Root)[i].multivalue
          /\ ~Fields(Root)[i].nullable

\* C1: in a Schema of plain scalar fields only, when every answer is accepted
\* on its first try, the questions of a fill are one per field, in declaration
\* order, and the record maps every field name, in that order, to its
\* converted answer; the fill returns once every field was asked.
PlainFillAsksEachFieldOnce ==
    (PlainSchema /\ InFill /\ \A i \in DOMAIN log : log[i].res = "accepted") =>
        /\ Len(log) <= len(Root)
        /\ \A i \in DOMAIN log :
              /\ log[i].kind = "input"
              /\ log[i].form = Root
              /\ log[i].index = i - 1
              /\ log[i].path = <<Key(Fields(Root)[i].name)>>
        /\ filled = <<"dict", [i \in DOMAIN log |-> Fields(Root)[i].name],
                      [i \in DOMAIN log |-> type_conv(Fields(Root)[i], log[i].ans)]>>
        /\ pc = "returned" => Len(log) = len(Root)

\* C1 witness: the two fields of PlainForm answered "a" and "Y"
PlainFillReturned ==
    /\ Schema = PlainForm
    /\ pc = "returned"
    /\ Len(log) = 2
    /\ log[1].ans = "a" /\ log[2].ans = "Y"
    /\ filled = <<"dict", <<"test", "ok">>, <<Str("a"), Bool(TRUE)>>>>

\* C2: for every repeatable scalar field of the root whose answers in a fill
\* were accepted values v1..vk followed by the sentinel, the returned record
\* holds the array [v1..vk] for the field (the empty array when the sentinel
\* came first).
SentinelClosesArray ==
    \A i \in 1..len(Root) :
        LET f == Fields(Root)[i]
            answers == About(Root, i)
            k == Len(answers) - 1
        IN (/\ pc = "returned"
            /\ f.field_type = "simple" /\ f.multivalue
            /\ k >= 0
            /\ answers[k + 1].res = "sentinel"
            /\ \A j \in 1..k : answers[j].res = "accepted") =>
               /\ has_key(filled, f.name)
               /\ get_item(filled, f.name) =
                     <<"list", [j \in 1..k |-> type_conv(f, answers[j].ans)]>>

\* the root's only field is a polymorphic object, asked once
PolymorphicSchema ==
    /\ len(Root) = 1
    /\ Fields(Root)[1].polymorphic
    /\ ~Fields(Root)[1].multivalue
    /\ ~Fields(Root)[1].nullable

\* C3: for a polymorphic object field, once the type question is answered with
\* tag t, the remaining questions of the sub-record are exactly the fields the
\* variant of t declares after the type selector, in declaration order, and
\* the sub-record returned is {type: t} followed by those fields with their
\* converted values.
PolymorphicDispatch ==
    (PolymorphicSchema /\ InFill /\ Len(Kept) >= 1) =>
        LET f == Fields(Root)[1]
            t == Kept[1].ans
            variant == type_form(f, Str(t))
        IN /\ Kept[1].index = 0
           /\ variant # 0
           /\ Len(Kept) <= len(variant)
           /\ \A k \in 2..Len(Kept) :
                 /\ Kept[k].form = variant
                 /\ Kept[k].index = k - 1
                 /\ Kept[k].path = <<Key(f.name), Key(Fields(variant)[k].name)>>
           /\ filled = <<"dict", <<f.name>>,
                 << <<"dict", [k \in DOMAIN Kept |-> Fields(variant)[k].name],
                       [k \in DOMAIN Kept |->
                           type_conv(Fields(variant)[k], Kept[k].ans)]>> >> >>
           /\ pc = "returned" => Len(Kept) = len(variant)

\* C4: once "no" was answered to "Enter value for it?" about an object, no
\* question of that fill goes below the declined object's path, and the
\* record holds null at that path.
DeclinedObjectIsNull ==
    \A i \in DOMAIN log :
        (log[i].kind = "null" /\ log[i].res = "no") =>
            /\ \A j \in DOMAIN log : ~Below(log[j].path, log[i].path)
            /\ InFill => value_at(filled, log[i].path, 1) = None

\* C4 witness: the nullable object of NullableObjectForm declined
DeclinedObjectReturned ==
    /\ Schema = NullableObjectForm
    /\ pc = "returned"
    /\ Len(log) = 1
    /\ log[1].kind = "null" /\ log[1].res = "no"
    /\ filled = <<"dict", <<"o">>, <<None>>>>

\* the last exchange of the latest _ask call
Final == last.io[Len(last.io)]

\* a fill that returned holds, for every remembering scalar of the root it
\* recorded, the value that is now the field's default
RememberedIsReturned ==
    (pc = "returned" /\ fills > 0) =>
        \A i \in 1..len(Root) :
            LET f == Fields(Root)[i]
            IN (/\ f.field_type = "simple" /\ f.default_last_entered
                /\ ~f.multivalue /\ has_key(filled, f.name)) =>
                   get_item(filled, f.name) = default[Root][i]

\* what one step does to the defaults
RememberLastStep ==
    IF pc = "filling" /\ pc' # "returned" /\ Len(last'.io) > 0
    THEN LET e == last'.io[Len(last'.io)]
             f == FieldAt(e.form, e.index)
             slot == Slot(e.form, e.index)
             accepts == /\ e.kind = "input" /\ f.default_last_entered
                        /\ e.res \in {"accepted", "default", "null"}
         IN /\ accepts => default'[e.form][slot] = last'.value
            /\ (accepts /\ e.res = "accepted") => last'.value = type_conv(f, e.ans)
            /\ (accepts /\ e.res = "default" /\ ~callable(default[e.form][slot])) =>
                  last'.value = default[e.form][slot]
            /\ ~accepts => default' = default
            /\ \A g \in Forms : \A j \in 1..len(g) :
                  <<g, j>> # <<e.form, slot>> => default'[g][j] = default[g][j]
    ELSE default' = default

\* C5: a scalar field that remembers its last entry has as default the value
\* it accepted last (typed and converted, or its default taken again by a
\* blank answer), so a blank answer in a later fill yields that value again; a
\* rejected answer, the sentinel or any other step changes no default.
RememberLast == []RememberedIsReturned /\ [][RememberLastStep]_vars

\* C5 witness: the second fill of DefaultLastForm, answered blank, returns the
\* "a" of the first fill
RememberedReturnedAgain ==
    /\ Schema = DefaultLastForm
    /\ fills = 2
    /\ pc = "returned"
    /\ Len(log) = 1 /\ log[1].ans = "" /\ log[1].res = "default"
    /\ filled = <<"dict", <<"test">>, <<Str("a")>>>>

\* the root's only field is a scalar whose default is SequenceProvider 1
SequenceSchema ==
    /\ Len(Schema.fields) = 1
    /\ len(Root) = 1
    /\ callable(Fields(Root)[1].default)

\* what the k-th call of SequenceProvider p is to return
kth_member(p, k) ==
    LET members == Schema.providers[p].members
        n == Len(members)
    IN IF n = 0 THEN None
       ELSE IF Schema.providers[p].repeat THEN members[((k - 1) % n) + 1]
       ELSE IF k <= n THEN members[k]
       ELSE None

\* C6: the question of the k-th fill of a scalar whose default is a Sequence
\* provider over m0..m(n-1) shows, and a blank answer yields, m((k-1) mod n):
\* m0 again in fill n+1; with repeat disabled no value from fill n+1 on, and
\* never a value when the provider has no members.
SequenceRotates ==
    (SequenceSchema /\ InFill /\ Len(last.io) > 0) =>
        /\ last.io[1].default = kth_member(1, fills)
        /\ Final.res = "default" => last.value = kth_member(1, fills)
        /\ kth_member(1, fills) = None => Final.res # "default"

\* C6 witness: the fill after the last member of SequenceForm was used,
\* answered blank, yields "one" again
SequenceWrapped ==
    /\ Schema = SequenceForm
    /\ fills = Len(SequenceForm.providers[1].members) + 1
    /\ pc = "returned"
    /\ Final.ans = "" /\ Final.res = "default"
    /\ filled = <<"dict", <<"test">>, <<Str("one")>>>>

\* within one _ask call: the position is on the field asked, a rejected answer
\* is followed by the same field's question with the Form state unchanged, and
\* the call ends with the first answer that is not rejected
RejectedChangesNothing ==
    \A i \in DOMAIN last.io :
        LET e == last.io[i]
        IN e.kind = "input" =>
              /\ e.snap.cursor[e.form] = e.index
              /\ e.res = "rejected" =>
                    /\ i < Len(last.io)
                    /\ last.io[i + 1].kind = "input"
                    /\ last.io[i + 1].form = e.form
                    /\ last.io[i + 1].index = e.index
                    /\ last.io[i + 1].snap = e.snap
              /\ e.res # "rejected" => i = Len(last.io)
              /\ e.res = "accepted" =>
                    last.value = type_conv(FieldAt(e.form, e.index), e.ans)

\* an _ask call on a scalar of the root that ends accepted moves the root's
\* position by one field (by none inside a repetition), however many answers
\* were rejected before
AcceptedAdvancesOne ==
    (/\ pc = "filling" /\ pc' # "returned" /\ Len(last'.io) > 0
     /\ last'.io[Len(last'.io)].kind = "input"
     /\ last'.io[Len(last'.io)].form = Root
     /\ last'.io[Len(last'.io)].res = "accepted") =>
        /\ cursor'[Root] = cursor[Root] + (IF in_multivalue[Root] THEN 0 ELSE 1)
        /\ Len(log') = Len(log) + Len(last'.io)
        /\ \A i \in 1..(Len(last'.io) - 1) : last'.io[i].res = "rejected"

\* C7: an answer the converter rejects changes no Cursor state and no default
\* and the same field is asked again; the first answer that converts is
\* accepted with its converted value and advances the traversal by exactly one
\* question, whatever the number of rejected answers before it.
ConversionRetry == []RejectedChangesNothing /\ [][AcceptedAdvancesOne]_vars

\* C7 witness: the bool field of PlainForm rejects twice, then accepts "Y"
RejectedTwiceThenAccepted ==
    /\ Schema = PlainForm
    /\ pc = "filling"
    /\ Len(last.io) = 3
    /\ last.io[1].res = "rejected" /\ last.io[2].res = "rejected"
    /\ last.io[3].res = "accepted" /\ last.io[3].ans = "Y"
    /\ last.value = Bool(TRUE)
    /\ cursor[Root] = 1

\* C8: after a fill returned every Cursor of the tree is NotStarted with no
\* repetition active, and the first question of every fill is about the first
\* field of the root.
CursorsResetAfterFill ==
    /\ pc = "returned" =>
          \A g \in Forms : /\ cursor[g] = NotStarted
                           /\ ~in_multivalue[g]
                           /\ multivalue_index[g] = -1
    /\ (InFill /\ Len(log) >= 1) =>
          /\ log[1].index = 0
          /\ log[1].path[1] = Key(Fields(Root)[1].name)

\* C8 witness: the second fill of NestedForm returned, nested forms included
SecondNestedFillReturned ==
    /\ Schema = NestedForm
    /\ fills = 2
    /\ pc = "returned"
    /\ Len(log) = 3
    /\ cursor = [g \in Forms |-> NotStarted]

\* C9 as stated: after a completed fill hasMore() is false on the root.
NoMoreAfterFill == (pc = "returned" /\ fills > 0) => ~has_more_prompts(State, Root)

\* C9: fill leaves its loop when hasMore() is false on the root and resets the
\* Cursor tree before it returns, so after a completed fill hasMore() is true
\* on the root of every Schema that has a field, and false on an empty one.
MoreAgainAfterFill ==
    /\ [][(pc = "filling" /\ pc' = "returned") => ~has_more_prompts(State, Root)]_vars
    /\ []((pc = "returned" /\ fills > 0) =>
             (has_more_prompts(State, Root) <=> len(Root) >= 1))

\* C9 witness: PlainForm filled and returned, with more to ask again
ReturnedWithMore ==
    /\ Schema = PlainForm
    /\ pc = "returned"
    /\ fills = 1
    /\ has_more_prompts(State, Root)

\* hasMore() as the specification defines it
hasMore(fid) ==
    \/ cursor[fid] = NotStarted
    \/ cursor[fid] < len(fid) - 1
    \/ /\ cursor[fid] = len(fid) - 1
       /\ FieldAt(fid, cursor[fid]).field_type = "object"
       /\ has_more_prompts(State, form[fid][Slot(fid, cursor[fid])])
    \/ /\ cursor[fid] = len(fid) - 1
       /\ in_multivalue[fid]

\* C10 as stated: in every reachable state hasMore() is true iff the position
\* is NotStarted, or before the last index, or at the last index on an object
\* whose nested Cursor has questions left, or at the last index with a
\* repetition pending.
HasMoreAsSpecified == \A g \in Forms : has_more_prompts(State, g) <=> hasMore(g)

\* C10: that equivalence holds for every Schema with at least one field; for a
\* Schema with no field hasMore() is false in every state, NotStarted included.
HasMoreUnlessEmpty ==
    \A g \in Forms :
        IF len(g) < 1 THEN ~has_more_prompts(State, g)
        ELSE has_more_prompts(State, g) <=> hasMore(g)

\* C10 witness: at the last field with a repetition pending
RepetitionPendingAtLast ==
    /\ Schema = RememberTagsForm
    /\ pc = "filling"
    /\ cursor[Root] = len(Root) - 1
    /\ in_multivalue[Root]
    /\ has_more_prompts(State, Root)

\* the next _ask on form g would fail for lack of a question, changing nothing
Misuse(g) == ask(State, g, <<>>, <<>>) = {Result("ValueError", State, <<>>, None, <<>>)}

\* C11: in every reachable state hasMore() is false exactly when the next ask
\* fails with the no-more-questions error: no ask fails with it while
\* hasMore() is true, and the failing ask leaves the Form state unchanged.
MisuseIffNoMore ==
    pc # "raised" =>
        \A g \in Forms :
            IF has_more_prompts(State, g)
            THEN \A r \in ask(State, g, <<>>, <<>>) : r.st # "ValueError"
            ELSE Misuse(g)

\* C12: an interrupt raised by the prompt leaves fill with no record, and a
\* later fill on the same Form starts from the first field of the root, as
\* every fill does.
InterruptLeavesFormFresh ==
    /\ pc = "raised" => filled = None
    /\ (pc = "filling" /\ log = <<>>) =>
          /\ \A g \in Forms : cursor[g] = NotStarted /\ ~in_multivalue[g]
          /\ \A r \in ask(State, Root, <<>>, <<>>) :
                r.st = "ok" => r.io[1].path[1] = Key(Fields(Root)[1].name)

\* the scalar values a record holds, each with the path it is held at
RECURSIVE Leaves(_, _)
Leaves(v, at) ==
    IF IsDict(v)
    THEN UNION {Leaves(v[3][i], Append(at, Key(v[2][i]))) : i \in DOMAIN v[2]}
    ELSE IF IsList(v)
    THEN UNION {Leaves(v[2][i], Append(at, Idx(i - 1))) : i \in DOMAIN v[2]}
    ELSE {<<at, v>>}
\* a pass of fill's loop whose _ask reported a path ending in the marker
MarkerStep ==
    /\ pc = "filling" /\ pc' = "filling"
    /\ last'.st = "ok" /\ last'.path # <<>>
    /\ last'.path[Len(last'.path)] = IdxNone
\* the path of the repeated field a marker path closes
Closed(path) == SubSeq(path, 1, Len(path) - 1)

\* C13 (as stated): folding a pair whose path ends in the closed-repetition
\* marker leaves the record identical: no key, no array, no nested map is
\* created by it.
MarkerAltersNothing == [][MarkerStep => filled' = filled]_vars

\* C13 (amended): folding a pair whose path ends in the closed-repetition
\* marker stores no value: the record holds the same values at the same paths
\* before and after, it is identical when the repeated field already had its
\* array, and otherwise the only change is that the containers on the way to
\* the repeated field are created, its array being created empty.
MarkerStoresNoValue ==
    [][MarkerStep =>
          LET p == Closed(last'.path)
          IN /\ Leaves(filled', <<>>) = Leaves(filled, <<>>)
             /\ IF IsList(value_at(filled, p, 1))
                THEN filled' = filled
                ELSE value_at(filled', p, 1) = EmptyList]_vars
\* a repetition closed before its first entry: the marker created its array
MarkerCreatedEmptyArray ==
    /\ pc = "filling" /\ last.st = "ok" /\ last.path # <<>>
    /\ last.path[Len(last.path)] = IdxNone
    /\ value_at(filled, Closed(last.path), 1) = EmptyList

\* the path of the field a prompt is about: the prompt's path less its indices
RECURSIVE FieldPath(_)
FieldPath(path) ==
    IF path # <<>> /\ startswith_bracket(path[Len(path)])
    THEN FieldPath(SubSeq(path, 1, Len(path) - 1)) ELSE path
\* the prompts of the current fill about a repeated field
Repeated == SelectSeq(log, LAMBDA e : FieldAt(e.form, e.index).multivalue)

\* C14: in the record a fill returns, every repeated (multivalue) field that
\* a question of the fill was about is held as an array, which may be empty:
\* it is neither null nor absent, nullable or not.
RepeatedFieldIsArray ==
    pc = "returned" =>
        \A i \in DOMAIN Repeated :
            IsList(value_at(filled, FieldPath(Repeated[i].path), 1))
\* a returned record with an empty array and an array whose entry is null
RepeatedReturnedEmpty ==
    /\ pc = "returned"
    /\ \E i \in DOMAIN Repeated :
          value_at(filled, FieldPath(Repeated[i].path), 1) = EmptyList
    /\ \E i \in DOMAIN Repeated :
          /\ FieldAt(Repeated[i].form, Repeated[i].index).nullable
          /\ value_at(filled, FieldPath(Repeated[i].path), 1) = <<"list", <<None>>>>

\* the "Enter another one?" questions of the current fill up to the i-th
\* exchange that were about the same field as it and were answered yes
YesBefore(i) ==
    {j \in 1..i : /\ log[j].kind = "more" /\ log[j].res = "yes"
                  /\ log[j].form = log[i].form /\ log[j].index = log[i].index}

\* C15: for a repeatable, non-nullable object field, k "yes" answers to the
\* confirmation asked before each repetition, then one "no", give exactly k
\* sub-records at indices 0..k-1, each a filled map, and after the "no" no
\* nested question of the field is asked.
RepeatedObjectCounts ==
    pc = "returned" =>
        \A i \in DOMAIN log :
            (/\ log[i].kind = "more" /\ log[i].res = "no"
             /\ ~FieldAt(log[i].form, log[i].index).nullable) =>
                LET p == FieldPath(log[i].path)
                    held == value_at(filled, p, 1)
                IN /\ IsList(held)
                   /\ Len(held[2]) = Cardinality(YesBefore(i))
                   /\ \A n \in DOMAIN held[2] :
                         IsDict(held[2][n]) /\ held[2][n] # EmptyDict
                   /\ \A j \in DOMAIN log : j > i => ~Below(log[j].path, p)

\* the i-th exchange of the current fill declined the value of a repetition
\* of a nullable repeated object
DeclinedRepetition(i) ==
    /\ log[i].kind = "null" /\ log[i].res = "no"
    /\ FieldAt(log[i].form, log[i].index).multivalue

\* C16: in a nullable and repeatable object field, a "no" to "Enter value for
\* it?" keeps the field open: the question that follows it is "Enter another
\* one?" about the same field, and the fill does not return before that
\* question was asked and answered "no".
DeclineKeepsFieldOpen ==
    \A i \in DOMAIN log :
        DeclinedRepetition(i) =>
            /\ i < Len(log) =>
                  /\ log[i + 1].kind = "more"
                  /\ log[i + 1].form = log[i].form
                  /\ log[i + 1].index = log[i].index
            /\ pc = "returned" => i < Len(log)

\* the ways an answer ends in the field accepting a value
Accepting == {"accepted", "default", "null", "generated"}
\* a pass of fill's loop in which _ask returned
AskReturned ==
    /\ pc = "filling"
    /\ pc' = "filling" \/ (pc' = "raised" /\ last'.st = "TypeError")
\* the call the entry hook of the field of exchange e gets for value v
HookCall(e, v) ==
    IF e.kind \in {"input", "auto"} /\ e.res \in Accepting
       /\ FieldAt(e.form, e.index).entry_hook
    THEN << <<e.form, e.index, v>> >> ELSE <<>>

\* C17: a field's entry hook is called exactly once for every value the field
\* accepts (typed, defaulted, explicit null, generated identifier), with the
\* value _ask reports for the field; a rejected answer and the sentinel call
\* no hook; an auto-id field gets its value without any question being asked.
EntryHookPerAcceptedValue ==
    [][(pc = "filling" /\ last'.io # <<>>) =>
          LET io == last'.io
              e == io[Len(io)]
          IN /\ AskReturned =>
                  hooked' = hooked \o HookCall(e, last'.value)
             /\ ~AskReturned => hooked' = hooked
             /\ \A i \in DOMAIN io :
                   FieldAt(io[i].form, io[i].index).field_type = "autouuid" =>
                       io[i].kind = "auto" /\ io[i].ans = ""]_vars
\* after a rejected answer the hook was called once, with the explicit null
HookCalledWithNull ==
    /\ Schema = NullableDefaultLastForm
    /\ \E i \in DOMAIN log : log[i].res = "rejected"
    /\ pc = "returned" /\ filled = set_item(EmptyDict, "n", None)
    /\ hooked = << <<Root, 0, None>> >>

\* the fields declared with a done hook
DoneHooked ==
    UNION {{<<fid, i>> : i \in {k \in 0..(len(fid) - 1) :
                                   "done_hook" \in FieldAt(fid, k).kwargs}} :
           fid \in Forms}
\* the calls the done hook of a field receives during a fill: the object
\* branch of _ask calls no hook
done_calls(fid, i) == 0
\* the sub-records of an object field completed in the current fill: those
\* declined, and those whose last nested field accepted a value
Completed(fid, i) ==
    LET sub == FieldAt(fid, i).form
    IN Cardinality({j \in DOMAIN log :
           \/ /\ log[j].form = fid /\ log[j].index = i
              /\ log[j].kind = "null" /\ log[j].res = "no"
           \/ /\ log[j].form = sub /\ log[j].index = len(sub) - 1
              /\ log[j].res \in Accepting})

\* C18: an object field can be declared with a done hook, and during a fill
\* the hook is called exactly once for each sub-record of the field that is
\* completed (entered in full, or declined as null); the "no" that closes a
\* repeated field calls it not.
DoneHookPerSubRecord ==
    \A d \in DoneHooked :
        /\ pc # "unbuilt"
        /\ pc = "returned" => done_calls(d[1], d[2]) = Completed(d[1], d[2])

\* the provider the default of the field of exchange e calls, 0 when none
ProviderOf(e) ==
    LET d == default[e.form][Slot(e.form, e.index)]
    IN IF e.kind = "input" /\ d # None /\ callable(d) THEN d[2] ELSE 0

\* C19: a SequenceProvider is advanced only by a question whose blank answer
\* accepts the default it gave, and then by one step; a question answered
\* with a typed value, a rejected answer or the sentinel leaves every
\* provider's index as it was.
ProviderAdvancesOnAcceptedDefault ==
    [][(pc = "filling" /\ log' # log) =>
          LET e == last'.io[Len(last'.io)]
          IN \A p \in DOMAIN sp_cursor :
                sp_cursor'[p] =
                    IF e.res = "default" /\ ProviderOf(e) = p
                    THEN SequenceProvider_call(State, p).s.sp_cursor[p]
                    ELSE sp_cursor[p]]_vars

\* the latest _ask ended on the end of input at the question of a scalar field
EndOfInputAtField ==
    /\ last.io # <<>>
    /\ last.io[Len(last.io)].kind = "input"
    /\ last.io[Len(last.io)].ans = EOF

\* C20: the end of input (explicit null) at the question of a scalar field is
\* accepted only when the field is nullable, and then the value reported is
\* null whatever default was shown; at a non-nullable field it becomes no
\* value: _ask raises EOFError, nothing is reported and no record is returned.
ExplicitNullOnlyWhenNullable ==
    EndOfInputAtField =>
        LET e == last.io[Len(last.io)]
        IN IF FieldAt(e.form, e.index).nullable
           THEN /\ last.st = "ok" /\ last.value = None
                /\ pc \in {"filling", "returned"}
                /\ value_at(filled, last.path, 1) = None
                /\ IsDict(filled)
                /\ has_key(filled, FieldAt(e.form, e.index).name)
           ELSE /\ last.st = "EOFError" /\ last.path = <<>>
                /\ pc = "raised" /\ filled = None
\* null accepted at a question that showed a default
ExplicitNullOverDefault ==
    /\ EndOfInputAtField
    /\ last.io[Len(last.io)].default = Bool(TRUE)
    /\ last.st = "ok" /\ last.value = None
    /\ pc = "returned"

\* C21: a blank answer to a scalar question yields the field's current
\* default when there is one, else null when the field is nullable, and is
\* never taken for the sentinel; only with no default and no nullable is the
\* blank string given to the converter, so only then can a string field take
\* the empty string.
BlankTakesDefault ==
    /\ \A i \in DOMAIN log :
          (log[i].kind = "input" /\ log[i].ans = "") => log[i].res # "sentinel"
    /\ (last.io # <<>> /\ last.io[Len(last.io)].kind = "input") =>
          LET e == last.io[Len(last.io)]
              f == FieldAt(e.form, e.index)
          IN /\ \A i \in DOMAIN last.io :
                   (last.io[i].ans = "" /\ last.io[i].res = "rejected") =>
                       e.default = None /\ ~f.nullable
             /\ e.ans = "" =>
                   IF e.default # None \/ f.nullable
                   THEN /\ e.res = "default" /\ last.st \in {"ok", "TypeError"}
                        /\ last.value = e.default
                   ELSE /\ e.res = "accepted"
                        /\ last.value = type_conv(f, "")
             /\ (e.res # "default" /\ last.value = Str("")) =>
                   e.ans = "" /\ e.default = None /\ ~f.nullable
\* a nullable field whose remembered default is null, answered blank
BlankOnNullableWithoutDefault ==
    /\ Schema = NullableDefaultLastForm /\ pc = "returned"
    /\ last.io[Len(last.io)].ans = "" /\ last.io[Len(last.io)].default = None
    /\ last.value = None

\* the round trips of the latest _ask: a question shown, an answer read
RoundTrips == SelectSeq(last.io, LAMBDA e : e.kind # "auto")
\* those of them whose answer ended the question
Settled == SelectSeq(RoundTrips, LAMBDA e : e.res \notin {"rejected", "invalid"})

Adds == {"add_auto_uuid_field", "add_field", "add_choice_field", "add_object_field",
         "add_polymorphic_object_field"}
\* the latest call on the Form under construction was an add_* call
Added == call.op \in Adds

\* C23: through any sequence of add_* calls no two fields of the Form share a
\* name and order lists every field name once, in the order of insertion: an
\* accepted call appends its name, and a call whose name already exists is
\* rejected with an error and leaves fields and order as they were.
UniqueNamesInInsertionOrder ==
    [][/\ \A i, j \in DOMAIN order' : i # j => order'[i] # order'[j]
       /\ elements(order') = DOMAIN fields'
       /\ call'.op \in Adds =>
            IF call'.outcome = "ok"
            THEN /\ call'.name \notin DOMAIN fields
                 /\ order' = Append(order, call'.name)
                 /\ DOMAIN fields' = DOMAIN fields \cup {call'.name}
                 /\ \A n \in DOMAIN fields : fields'[n] = fields[n]
            ELSE fields' = fields /\ order' = order
       /\ (call'.op \in Adds /\ call'.name \in DOMAIN fields) =>
            call'.outcome = "ValueError"]_vars
\* a third field was added, then a call with the first field's name rejected
DuplicateRejected ==
    /\ Added /\ call.outcome = "ValueError"
    /\ Len(order) = 3 /\ call.name = order[1]
    /\ \E n \in DOMAIN fields : fields[n].polymorphic

\* the whole name is an identifier: not empty, no digit first, and every
\* character a letter, a digit, '-', '_' or '$'
Identifier(name) ==
    /\ name # <<>>
    /\ name[1] \notin Digits
    /\ \A i \in DOMAIN name : name[i] \in Letters \cup Digits \cup {"-", "_", "$"}

\* C24: an add_* call is accepted only when its whole name is an identifier
\* (letters, digits, '-', '_', '$', not empty, no digit first); a name that
\* only begins with an identifier, such as one with a space later on, is
\* rejected at construction like any other bad name.
OnlyIdentifiersAccepted ==
    Added =>
        /\ call.outcome = "ok" => Identifier(call.name)
        /\ \A n \in DOMAIN fields : Identifier(n)

\* what C25 rules out in the type tags of a polymorphic field
BadTypeChoices(c) ==
    \/ Len(c.type_choices) < 2
    \/ \E i, j \in DOMAIN c.type_choices : i # j /\ c.type_choices[i] = c.type_choices[j]
    \/ \E i \in DOMAIN c.type_choices : c.type_choices[i] = ""
    \/ c.default_type # None /\
           \A i \in DOMAIN c.type_choices : Str(c.type_choices[i]) # c.default_type

\* C25: add_polymorphic_object_field with fewer than 2 type tags, a tag given
\* twice, an empty tag, or a default type that is none of the tags raises
\* ValueError at the call, and the call adds no field: fields and order stay
\* as they were.
BadTypeChoicesRejected ==
    [][(call'.op = "add_polymorphic_object_field" /\ BadTypeChoices(call')) =>
          /\ call'.outcome = "ValueError"
          /\ fields' = fields /\ order' = order]_vars
\* an empty tag after a good one, under a fresh good name, was rejected
BlankTagRejected ==
    /\ call.op = "add_polymorphic_object_field"
    /\ call.type_choices = <<"x", "">>
    /\ Identifier(call.name) /\ call.name \notin DOMAIN fields
    /\ call.outcome = "ValueError" /\ Len(order) = 1

\* the latest call was rejected and its name was neither taken nor bad
RejectedForItsArguments ==
    /\ call.outcome = "ValueError"
    /\ call.name \notin DOMAIN fields
    /\ re_match(call.name) # NoMatch

\* C26 (as stated): a repeatable scalar field with an empty sentinel is
\* rejected at construction, and so is a repeatable choice or polymorphic
\* field whose sentinel is one of its accepted values (type tags); a field
\* that is not repeatable is never rejected because of its sentinel.
SentinelCollisionsRejected ==
    /\ (call.op \in {"add_field", "add_choice_field"} /\ call.multivalue
        /\ call.sentinel = "") => call.outcome = "ValueError"
    /\ (call.op = "add_choice_field" /\ call.multivalue
        /\ call.sentinel \in call.choices) => call.outcome = "ValueError"
    /\ (call.op = "add_polymorphic_object_field" /\ call.multivalue
        /\ default_sentinel \in elements(call.type_choices)) =>
            call.outcome = "ValueError"
    /\ (call.op = "add_field" /\ ~call.multivalue) => ~RejectedForItsArguments
    /\ (call.op = "add_choice_field" /\ ~call.multivalue /\ RejectedForItsArguments) =>
            call.default # None /\ call.default[2] \notin call.choices
    /\ (call.op = "add_polymorphic_object_field" /\ ~call.multivalue
        /\ RejectedForItsArguments) => BadTypeChoices(call)

\* C26 (amended): a repeatable scalar field with an empty sentinel is
\* rejected at construction, and so is a repeatable choice field whose
\* sentinel is one of its choices; a polymorphic field has no sentinel and
\* is never rejected on account of one, repeatable or not, even when a type
\* tag equals the sentinel its type field gets; a field that is not
\* repeatable is never rejected because of its sentinel.
ScalarSentinelCollisionsRejected ==
    /\ (call.op \in {"add_field", "add_choice_field"} /\ call.multivalue
        /\ call.sentinel = "") => call.outcome = "ValueError"
    /\ (call.op = "add_choice_field" /\ call.multivalue
        /\ call.sentinel \in call.choices) => call.outcome = "ValueError"
    /\ (call.op = "add_field" /\ ~call.multivalue) => ~RejectedForItsArguments
    /\ (call.op = "add_choice_field" /\ ~call.multivalue /\ RejectedForItsArguments) =>
            call.default # None /\ call.default[2] \notin call.choices
    /\ (call.op = "add_polymorphic_object_field" /\ RejectedForItsArguments) =>
            BadTypeChoices(call)
\* a repeatable polymorphic field one of whose tags is "done" was added as the
\* first field of the Form
TagEqualToSentinelAccepted ==
    /\ call.op = "add_polymorphic_object_field" /\ call.multivalue
    /\ default_sentinel \in elements(call.type_choices)
    /\ call.outcome = "ok" /\ order = <<call.name>>

\* what the text of a prompt is made of
PromptOf(e) == <<e.path, e.default, e.nullable, e.sentinel>>

\* C27: the prompt of a scalar question shows the path with each repetition
\* index once (name[n]), an index only for a repeatable field, the default
\* iff there is one, the explicit-null note iff the field is nullable and the
\* sentinel note iff it is repeatable; it depends on nothing else, so the
\* question put again after a rejected answer shows the same prompt.
PromptAsSpecified ==
    \A i \in DOMAIN last.io :
        last.io[i].kind = "input" =>
            LET e == last.io[i]
                f == FieldAt(e.form, e.index)
            IN /\ \A k \in 1..(Len(e.path) - 1) :
                     ~(startswith_bracket(e.path[k]) /\ startswith_bracket(e.path[k + 1]))
               /\ f.multivalue <=> startswith_bracket(e.path[Len(e.path)])
               /\ e.nullable = f.nullable
               /\ e.sentinel = IF f.multivalue THEN Str(f.sentinel) ELSE None
               /\ e.default = e.snap.default[e.form][Slot(e.form, e.index)]
                     \/ callable(e.snap.default[e.form][Slot(e.form, e.index)])
               /\ (i > 1 /\ last.io[i - 1].res = "rejected") =>
                     PromptOf(e) = PromptOf(last.io[i - 1])

\* C28: remove(field_name) takes the named field out of fields and out of
\* order and raises nothing; when no field has that name the Form is left as
\* it was, again without an error.
RemoveTakesTheFieldOut ==
    [][call'.op = "remove" =>
          /\ call'.outcome = "ok"
          /\ DOMAIN fields' = DOMAIN fields \ {call'.name}
          /\ \A n \in DOMAIN fields' : fields'[n] = fields[n]
          /\ order' = SelectSeq(order, LAMBDA n : n # call'.name)]_vars

\* the lines of a text, and the call of wrap or columns that returned
Lines(text) == split(text, NL)
Wrapped == args.op = "wrap" /\ out.outcome = "ok"
Laid == args.op = "columns" /\ out.outcome = "ok"
\* the words of a text: what its spaces and line breaks separate
Words(text) ==
    UNION {{w \in {split(b, " ")[k] : k \in 1..Len(split(b, " "))} : w # <<>>} :
              b \in {Lines(text)[j] : j \in 1..Len(Lines(text))}}
\* the text has a line that is the head of the word and a hyphen, then padding
Hyphenated(text, w, width) ==
    \E i \in 1..Len(Lines(text)) :
        /\ Len(Lines(text)[i]) >= width
        /\ SubSeq(Lines(text)[i], 1, width) = Append(SubSeq(w, 1, width - 1), "-")

\* C29: wrap rejects a width below 2 with an error; for a width of 2 or more
\* no line of the output is longer than the width, a word longer than the
\* width is split with a trailing hyphen, and with extend every line of the
\* output is exactly as long as the width.
WrapKeepsToWidth ==
    (args.op = "wrap" /\ out # NoOutput) =>
        IF args.width < 2 THEN out.outcome = "ValueError"
        ELSE /\ out.outcome = "ok"
             /\ \A i \in 1..Len(Lines(out.value)) :
                    /\ Len(Lines(out.value)[i]) <= args.width
                    /\ args.extend => Len(Lines(out.value)[i]) = args.width
             /\ \A w \in Words(args.s) :
                    Len(w) > args.width => Hyphenated(out.value, w, args.width)

\* the lines the blocks of a text come to when each is wrapped on its own, in
\* order; an empty block comes to one blank line
RECURSIVE BlockByBlock(_, _, _)
BlockByBlock(blocks, width, extend) ==
    IF blocks = <<>> THEN <<>>
    ELSE Lines(wrap(blocks[1], width, extend).value)
             \o BlockByBlock(Tail(blocks), width, extend)
Blank(line) == \A i \in 1..Len(line) : line[i] = " "

\* C30: wrap and columns keep every line break of their input: the output is,
\* in order, the wrapped lines of each block between line breaks, and an empty
\* block is kept as a line of its own at its place (blank, and as wide as the
\* width when extending); each column of columns is laid out the same way.
LineBreaksRespected ==
    /\ Wrapped =>
           Lines(out.value) = BlockByBlock(Lines(args.s), args.width, args.extend)
    /\ Laid =>
           LET L == BlockByBlock(Lines(args.left), args.left_width - 1, TRUE)
               R == BlockByBlock(Lines(args.right), args.right_width - 1,
                                 args.extend_right)
               rows == Lines(out.value)
           IN /\ Len(rows) = IF Len(L) < Len(R) THEN Len(R) ELSE Len(L)
              /\ \A i \in 1..Len(L) :
                     SubSeq(rows[i], 1, args.left_width + 1) = L[i] \o <<" ", "|">>
              /\ \A i \in 1..Len(R) :
                     ~Blank(R[i]) =>
                         SubSeq(rows[i], args.left_width + 2, Len(rows[i]))
                             = <<" ">> \o R[i]

\* the exchange is a question of the field at Python index i of form g: one
\* put by g about it, or one put inside the field's nested form
Belongs(e, g, i) ==
    \/ e.form = g /\ e.index = i
    \/ /\ FieldAt(g, i).field_type = "object"
       /\ e.form \in {FieldAt(g, i).form}
                       \cup {FieldAt(g, i).types[k][2] : k \in 1..Len(FieldAt(g, i).types)}
\* the questions of the fill, in order, that belong to that field
Questions(g, i) == {j \in DOMAIN log : Belongs(log[j], g, i)}
\* the form is a variant of a polymorphic field: its first field is the type
\* selector, asked before the variant is chosen
Variant(g) ==
    \E h \in Forms : \E i \in 1..len(h) :
        \E k \in 1..Len(Fields(h)[i].types) : Fields(h)[i].types[k][2] = g
\* a question was asked inside the form; inside a variant: its tag was chosen
Entered(g) ==
    IF Variant(g)
    THEN \E h \in Forms : \E i \in 1..len(h) : \E j \in DOMAIN log :
             /\ Belongs(log[j], h, i - 1) /\ log[j].form # h
             /\ log[j].index = 0 /\ log[j].res = "accepted"
             /\ type_form(Fields(h)[i], Str(log[j].ans)) = g
    ELSE g = Root \/ \E j \in DOMAIN log : log[j].form = g
\* a "no" that closes a repeatable object field or declines a nullable one
ObjectClosed(j) ==
    \/ log[j].kind = "more" /\ log[j].res = "no"
    \/ /\ log[j].kind = "null" /\ log[j].res = "no"
       /\ ~FieldAt(log[j].form, log[j].index).multivalue

\* C32: no field is skipped: when a fill has returned, every field of every
\* form that was entered was asked or generated at least once, the fields of a
\* form first coming up in declaration order; and after a "no" that closes a
\* repeatable object field or declines a nullable object field, the next
\* question belongs to the field declared right after it, whatever its kind.
NoFieldSkipped ==
    /\ (pc = "returned" /\ fills > 0) =>
           \A g \in Forms :
               Entered(g) =>
                   \A i \in (IF Variant(g) THEN 1 ELSE 0)..(len(g) - 1) :
                       /\ Questions(g, i) # {}
                       /\ \A k \in (i + 1)..(len(g) - 1) : \A m \in Questions(g, k) :
                              \E j \in Questions(g, i) : j < m
    /\ \A j \in DOMAIN log :
           (ObjectClosed(j) /\ log[j].index + 1 < len(log[j].form)) =>
               /\ pc = "returned" => j < Len(log)
               /\ j < Len(log) => Belongs(log[j + 1], log[j].form, log[j].index + 1)

\* the Cursor tree: what decides the questions still to come
CursorTree == <<cursor, in_multivalue, multivalue_index, form>>

\* C33: fill terminates: when the operator gives an accepted answer to every
\* question and closes every repetition, the loop of fill reaches a state
\* without pending questions after finitely many questions. On a finite
\* Cursor tree this is: no question that was answered and accepted leaves the
\* tree as it was before the question, ready to put the same question again.
EveryAnswerAdvances ==
    [][(pc = "filling" /\ pc' = "filling" /\ last'.st = "ok")
           => CursorTree' # CursorTree]_vars

\* the accepted answers of the fill to a type-selector question
TypeAnswers ==
    {j \in DOMAIN log : /\ Variant(log[j].form) /\ log[j].index = 0
                        /\ log[j].res = "accepted"}

\* C34: in every sub-record of a polymorphic field the type selector is the
\* first question and is accepted exactly once: no two accepted type answers
\* are about the same sub-record, and every other question of a variant comes
\* after the accepted type answer of its sub-record. This includes a variant
\* with no field besides the type selector, whose sub-record is complete with
\* the type answer.
TypeSelectorOncePerSubRecord ==
    /\ \A j, k \in TypeAnswers : j # k => log[j].path # log[k].path
    /\ \A j \in DOMAIN log :
           (Variant(log[j].form) /\ log[j].index > 0) =>
               \E k \in TypeAnswers : k < j /\ Closed(log[k].path) = Closed(log[j].path)

\* form g is on an object field whose nested form was entered and has more
\* questions to put
InSubRecord(g) ==
    /\ cursor[g] > -1 /\ cursor[g] < len(g)
    /\ FieldAt(g, cursor[g]).field_type = "object"
    /\ cursor[form[g][cursor[g] + 1]] > -1
    /\ has_more_prompts(State, form[g][cursor[g] + 1])

\* C35: the questions of one object sub-record are contiguous: while the
\* nested form of the object field a form is on was entered and is not
\* exhausted, the next _ask puts no question of that form itself, leaves its
\* position on the object field and stays in the same repetition.
SubRecordContiguous ==
    [][\A g \in Forms :
           (pc = "filling" /\ pc' = "filling" /\ InSubRecord(g)) =>
               /\ cursor'[g] = cursor[g]
               /\ multivalue_index'[g] = multivalue_index[g]
               /\ \A k \in DOMAIN last'.io : last'.io[k].form # g]_vars
\* a second question of a nested sub-record was asked while its parent waited
SecondNestedQuestionAsked ==
    /\ pc = "filling" /\ Len(log) >= 2
    /\ cursor[Root] = 0 /\ FieldAt(Root, 0).field_type = "object"
    /\ log[Len(log)].form = form[Root][1] /\ log[Len(log)].index = 1
    /\ log[Len(log) - 1].form = form[Root][1] /\ log[Len(log) - 1].index = 0

\* C36: in every reachable state the position of every Cursor is "before
\* start" (-1) or an index of a field of its form (0 .. len - 1); declining or
\* closing an object field does not move it past the last field.
PositionInRange ==
    \A g \in Forms : cursor[g] >= NotStarted /\ cursor[g] <= len(g) - 1

\* C37: in every reachable state repetition_active of a Cursor is true only
\* while its position is at a repeatable field: when the field at the position
\* is not repeatable, or the position is before start, it is false.
RepetitionOnlyAtRepeatable ==
    \A g \in Forms :
        in_multivalue[g] =>
            /\ cursor[g] > NotStarted /\ cursor[g] < len(g)
            /\ FieldAt(g, cursor[g]).multivalue

\* the places of the fill's prompts where an entry of an array is named:
\* <<j, k>> when component k of the path of exchange j is the index of an
\* entry of the field named by component k - 1
Indexed ==
    {jk \in UNION {{<<j, k>> : k \in 2..Len(log[j].path)} : j \in DOMAIN log} :
        /\ log[jk[1]].path[jk[2]][1] = "idx"
        /\ log[jk[1]].path[jk[2] - 1][1] = "key"}
ArrayOf(jk) == SubSeq(log[jk[1]].path, 1, jk[2] - 1)
IndexOf(jk) == log[jk[1]].path[jk[2]][2]
\* the accepted entries of the repeatable scalar field exchange j is about
Entries(j) ==
    {i \in DOMAIN log : /\ log[i].kind = "input"
                        /\ log[i].form = log[j].form /\ log[i].index = log[j].index
                        /\ FieldPath(log[i].path) = FieldPath(log[j].path)
                        /\ log[i].res \in {"accepted", "default", "null"}}

\* C38: within one fill the indices reported for the entries of a repeatable
\* field are 0, 1, 2, .. in entry order: the first index named for an array is
\* 0 and every later one is the index before it or the next; and the array a
\* returned record holds for a repeatable scalar field has as many elements as
\* entries were accepted, without placeholder and without a dropped value.
IndicesConsecutive ==
    /\ \A jk \in Indexed :
           LET before == {x \in Indexed : /\ x[1] < jk[1] /\ x[2] = jk[2]
                                           /\ ArrayOf(x) = ArrayOf(jk)}
           IN IF before = {} THEN IndexOf(jk) = 0
              ELSE LET prev == CHOOSE x \in before : \A y \in before : y[1] <= x[1]
                   IN IndexOf(jk) \in {IndexOf(prev), IndexOf(prev) + 1}
    /\ pc = "returned" =>
           \A j \in DOMAIN log :
               (/\ log[j].kind = "input"
                /\ FieldAt(log[j].form, log[j].index).multivalue) =>
                   LET held == value_at(filled, FieldPath(log[j].path), 1)
                   IN /\ IsList(held)
                      /\ Len(held[2]) = Cardinality(Entries(j))

\* ---------------------------------------------------------------------------
\* universe_collapse (mutations.py)
\* ---------------------------------------------------------------------------

\* the length of the longest dataset['events'] passed to universe_collapse
MaxEvents == 2

\* the 'universes' lists of the events a dataset is made of: universes in the
\* flat form, in the nested form, both, and none
UniverseLists ==
    LET FlatUniverse(n, t, l, chars, items) ==
            [name |-> n, timeline |-> t, location |-> l, characters |-> chars,
             items |-> items]
        NestedUniverse(n, locs) ==
            [name |-> n, timelines |-> <<[path |-> "/", locations |-> locs]>>]
        LocationOf(p, chars) == [path |-> p, characters |-> chars, items |-> <<>>]
    IN { <<>>,
         <<FlatUniverse("u", "/", "a", <<"john">>, <<>>)>>,
         <<FlatUniverse("u", "/", "a", <<"john", "john">>, <<"arms">>),
           FlatUniverse("u", "/", "a", <<"dave", "john">>, <<"arms">>)>>,
         <<FlatUniverse("u", "/", "a", <<"john">>, <<>>),
           FlatUniverse("v", "/", "b", <<"dave">>, <<>>),
           FlatUniverse("u", "/", "b", <<>>, <<"arms">>)>>,
         <<NestedUniverse("u", <<LocationOf("a", <<"john">>)>>)>>,
         <<NestedUniverse("u", <<LocationOf("a", <<"john">>),
                                 LocationOf("a", <<"dave">>)>>)>>,
         <<NestedUniverse("v", <<LocationOf("b", <<"john">>)>>),
           FlatUniverse("v", "/", "b", <<"dave">>, <<"arms">>)>> }

Datasets ==
    UNION {[1..n -> {[universes |-> us] : us \in UniverseLists}] : n \in 0..MaxEvents}

\* 'characters' in u
is_flat(u) == "characters" \in DOMAIN u

\* a dict keeps the order its keys were inserted in: a sequence of <<key, value>>
dict_get(d, k) == d[CHOOSE i \in DOMAIN d : d[i][1] = k][2]
\* if k not in d: d[k] = v
dict_set_new(d, k, v) ==
    IF \E i \in DOMAIN d : d[i][1] = k THEN d ELSE Append(d, <<k, v>>)
\* d[k] = v for a key that is in d
dict_set(d, k, v) == [i \in DOMAIN d |-> IF d[i][1] = k THEN <<k, v>> ELSE d[i]]

\* for x in xs: if x not in l: l.append(x)
RECURSIVE append_new(_, _)
append_new(l, xs) ==
    IF xs = <<>> THEN l
    ELSE append_new(IF \E i \in DOMAIN l : l[i] = Head(xs) THEN l
                    ELSE Append(l, Head(xs)),
                    Tail(xs))

\* new_univs after the universe n was looked up or created
with_universe(new_univs, n) ==
    dict_set_new(new_univs, n, [name |-> n, timelines |-> <<>>])

\* new_univs after the timeline t of universe n was looked up or created
with_timeline(new_univs, n, t) ==
    LET univ == dict_get(new_univs, n)
    IN dict_set(new_univs, n,
                [univ EXCEPT !.timelines =
                    dict_set_new(@, t, [path |-> t, locations |-> <<>>])])

\* new_univs after the characters and items were added to location l of
\* timeline t of universe n, the location created when it is new
with_location(new_univs, n, t, l, chars, items) ==
    LET univ == dict_get(new_univs, n)
        tl == dict_get(univ.timelines, t)
        locs == dict_set_new(tl.locations, l,
                            [path |-> l, characters |-> <<>>, items |-> <<>>])
        loc == dict_get(locs, l)
        new_loc == [loc EXCEPT !.characters = append_new(@, chars),
                               !.items = append_new(@, items)]
    IN dict_set(new_univs, n,
                [univ EXCEPT !.timelines =
                    dict_set(@, t, [tl EXCEPT !.locations =
                                        dict_set(locs, l, new_loc)])])

\* for loc in tl['locations']
RECURSIVE collapse_locations(_, _, _, _)
collapse_locations(new_univs, n, t, locs) ==
    IF locs = <<>> THEN new_univs
    ELSE collapse_locations(
             with_location(new_univs, n, t, Head(locs).path,
                           Head(locs).characters, Head(locs).items),
             n, t, Tail(locs))

\* for tl in u['timelines']
RECURSIVE collapse_timelines(_, _, _)
collapse_timelines(new_univs, n, tls) ==
    IF tls = <<>> THEN new_univs
    ELSE collapse_timelines(
             collapse_locations(with_timeline(new_univs, n, Head(tls).path),
                                n, Head(tls).path, Head(tls).locations),
             n, Tail(tls))

\* for u in univs, in the branch taken when needs_updating is true
RECURSIVE collapse_universes(_, _)
collapse_universes(new_univs, univs) ==
    IF univs = <<>> THEN new_univs
    ELSE LET u == Head(univs)
             made == with_universe(new_univs, u.name)
         IN collapse_universes(
                IF is_flat(u)
                THEN with_location(with_timeline(made, u.name, u.timeline),
                                   u.name, u.timeline, u.location,
                                   u.characters, u.items)
                ELSE collapse_timelines(made, u.name, u.timelines),
                Tail(univs))

\* the dicts turned into the lists of the nested form
formatted_new_univs(new_univs) ==
    [i \in DOMAIN new_univs |->
        LET u == new_univs[i][2]
        IN [name |-> new_univs[i][1],
            timelines |->
                [j \in DOMAIN u.timelines |->
                    LET tl == u.timelines[j][2]
                    IN [path |-> u.timelines[j][1],
                        locations |->
                            [k \in DOMAIN tl.locations |-> tl.locations[k][2]]]]]]

\* needs_updating is a local that no statement before the event loop assigns
Unbound == "unbound"

\* universe_collapse is called on one of the datasets
InitCollapse ==
    /\ Constructed
    /\ sid = 1
    /\ args = NoArgs /\ out = NoOutput
    /\ wizahd = NoWizahd /\ did = NoCall
    /\ dataset \in Datasets
    /\ frame = [st |-> "running", given |-> dataset, next |-> 1,
                needs_updating |-> Unbound, modified_count |-> 0]

\* one pass of the loop over dataset['events']
CollapseEvent ==
    /\ frame.st = "running"
    /\ frame.next <= Len(dataset)
    /\ LET univs == dataset[frame.next].universes
           needs_updating == IF \E i \in DOMAIN univs : is_flat(univs[i])
                             THEN "True" ELSE frame.needs_updating
       IN IF needs_updating = Unbound
          THEN /\ frame' = [frame EXCEPT !.st = "UnboundLocalError"]
               /\ dataset' = dataset
          ELSE /\ dataset' = [dataset EXCEPT ![frame.next].universes =
                                 formatted_new_univs(collapse_universes(<<>>, univs))]
               /\ frame' = [frame EXCEPT !.next = @ + 1,
                                         !.needs_updating = needs_updating,
                                         !.modified_count = @ + 1]
    /\ UNCHANGED <<sid, cursor, in_multivalue, multivalue_index, default, form,
                   sp_cursor, uuids, hooked, pc, filled, log, last, fills,
                   construction, layout, narrating>>

\* the loop is over: return modified_count
CollapseReturn ==
    /\ frame.st = "running"
    /\ frame.next > Len(dataset)
    /\ frame' = [frame EXCEPT !.st = "returned"]
    /\ UNCHANGED <<sid, cursor, in_multivalue, multivalue_index, default, form,
                   sp_cursor, uuids, hooked, pc, filled, log, last, fills,
                   construction, layout, dataset, narrating>>

NextCollapse == CollapseEvent \/ CollapseReturn

SpecCollapse == InitCollapse /\ [][NextCollapse]_vars

\* the entries of s without the repeats of an earlier one
RECURSIVE Distinct(_)
Distinct(s) ==
    IF s = <<>> THEN <<>>
    ELSE LET front == Distinct(SubSeq(s, 1, Len(s) - 1))
         IN IF \E i \in DOMAIN front : front[i] = s[Len(s)] THEN front
            ELSE Append(front, s[Len(s)])

\* s0 \o s1 \o .. for a sequence of sequences
RECURSIVE Concat(_)
Concat(ss) == IF ss = <<>> THEN <<>> ELSE Head(ss) \o Concat(Tail(ss))

\* every (name, timeline, location, characters, items) an event's universes
\* name, in the order they are listed
Placements(univs) ==
    Concat([i \in DOMAIN univs |->
        LET u == univs[i]
        IN IF is_flat(u)
           THEN <<[name |-> u.name, timeline |-> u.timeline,
                   location |-> u.location, characters |-> u.characters,
                   items |-> u.items]>>
           ELSE Concat([j \in DOMAIN u.timelines |->
                    [k \in DOMAIN u.timelines[j].locations |->
                        LET loc == u.timelines[j].locations[k]
                        IN [name |-> u.name, timeline |-> u.timelines[j].path,
                            location |-> loc.path,
                            characters |-> loc.characters,
                            items |-> loc.items]]])])


\* the nested form of an event's universes: universes, their timelines and
\* their locations in first-seen order, characters and items without repeats
Grouped(univs) ==
    LET ps == Placements(univs)
        names == Distinct([i \in DOMAIN ps |-> ps[i].name])
    IN [a \in DOMAIN names |->
         LET in_u == SelectSeq(ps, LAMBDA p : p.name = names[a])
             tls == Distinct([i \in DOMAIN in_u |-> in_u[i].timeline])
         IN [name |-> names[a],
             timelines |->
               [b \in DOMAIN tls |->
                 LET in_t == SelectSeq(in_u, LAMBDA p : p.timeline = tls[b])
                     ls == Distinct([i \in DOMAIN in_t |-> in_t[i].location])
                 IN [path |-> tls[b],
                     locations |->
                       [c \in DOMAIN ls |->
                         LET in_l == SelectSeq(in_t, LAMBDA p : p.location = ls[c])
                         IN [path |-> ls[c],
                             characters |->
                               Distinct(Concat([i \in DOMAIN in_l |->
                                                   in_l[i].characters])),
                             items |->
                               Distinct(Concat([i \in DOMAIN in_l |->
                                                   in_l[i].items]))]]]]]]

\* the event holds at least one flat universe
HoldsFlat(ev) == \E i \in DOMAIN ev.universes : is_flat(ev.universes[i])

\* C31: universe_collapse ends by returning, never by an error; when it has
\* returned, every event that held a flat universe holds the nested form of
\* its universes (grouped by name, timeline and location in first-seen order,
\* characters and items without repeats), every other event is as it was
\* given, whatever events precede it, and the number returned is the number of
\* events that held a flat universe.
CollapseRewritesFlatEventsOnly ==
    /\ frame.st # "UnboundLocalError"
    /\ frame.st = "returned" =>
        /\ \A i \in DOMAIN frame.given :
              dataset[i].universes =
                  IF HoldsFlat(frame.given[i])
                  THEN Grouped(frame.given[i].universes)
                  ELSE frame.given[i].universes
        /\ frame.modified_count =
               Cardinality({i \in DOMAIN frame.given : HoldsFlat(frame.given[i])})

\* ---------------------------------------------------------------------------
\* Wizahd (wizahd.py) and the constraint types it names (events.py)
\* ---------------------------------------------------------------------------

\* the most events a Wizahd is grown to, and the last comic panel cited
MaxNarrative == 3
MaxPanel == 3

\* Python's None as a universe, timeline or location
NoneValue == "None"

\* Constraint.types as the list literal evaluates: no comma separates
\* 'narrative_immediate' and 'absolute', which makes them one string
Constraint_types ==
    {"narrative_entrypoint", "narrative_jump", "narrative_causal",
     "narrative_immediate" \o "absolute", "relative", "causal", "sync"}

\* Constraint(type): raises ValueError for a type that is not in the list
Constraint(type) ==
    IF type \notin Constraint_types THEN [outcome |-> "ValueError"]
    ELSE [outcome |-> "ok", type |-> type]

\* an Event with its citation and its universes; Universe, Timeline and
\* Location read the keywords 'name', 'path' and 'path'
Event(kind, panel, universes) ==
    [kind |-> kind, panel |-> panel, universes |-> universes]
Universe(kwargs, timelines) ==
    [name |-> IF "name" \in DOMAIN kwargs THEN kwargs.name ELSE "",
     timelines |-> timelines]
Timeline(path, locations) == [path |-> path, locations |-> locations]
Location(path) == [path |-> path]

\* the events a Wizahd is created with
GivenEvents ==
    { Event("narration", 1,
            <<Universe([name |-> "u"], <<Timeline("/", <<Location("a")>>)>>)>>),
      Event("dialog", 2, <<Universe([name |-> "v"], <<>>)>>),
      Event("narration", 0, <<>>) }
GivenEventLists == UNION {[1..n -> GivenEvents] : n \in 0..2}

\* self._events[self._cursor], with Python's indexing of a list
current_event(w) ==
    LET n == Len(w.events)
    IN IF w.cursor \in 0..(n - 1) THEN [outcome |-> "ok", event |-> w.events[w.cursor + 1]]
       ELSE IF w.cursor \in (0 - n)..(0 - 1)
            THEN [outcome |-> "ok", event |-> w.events[n + w.cursor + 1]]
            ELSE [outcome |-> "IndexError"]

\* Wizahd.goto: the Wizahd after the call, and how the call ended
goto(w, c) ==
    IF c < 0 \/ c >= Len(w.events) THEN [w |-> w, outcome |-> "ValueError"]
    ELSE LET event == current_event([w EXCEPT !.cursor = c]).event
             us == event.universes
             tls == IF us = <<>> THEN <<>> ELSE us[1].timelines
             locs == IF tls = <<>> THEN <<>> ELSE tls[1].locations
         IN [w |-> [w EXCEPT !.cursor = c,
                             !.comic_page = event.panel,
                             !.universe = IF us = <<>> THEN NoneValue ELSE us[1].name,
                             !.timeline = IF tls = <<>> THEN NoneValue ELSE tls[1].path,
                             !.location = IF locs = <<>> THEN NoneValue ELSE locs[1].path],
             outcome |-> "ok"]

\* Wizahd.__init__
NewWizahd(events) ==
    LET first == [cursor |-> -1, events |-> events, universe |-> "",
                  timeline |-> "", location |-> "", comic_page |-> 0,
                  narrative_link |-> "causal"]
        started == IF Len(events) < 1
                   THEN [first EXCEPT !.events = <<Event("narration", 0, <<>>)>>]
                   ELSE first
    IN goto(started, Len(started.events) - 1).w

\* Wizahd.advance_narrative: the Wizahd after the call, and how the call ended
advance_narrative(w, to_panel, for_dialog) ==
    IF w.comic_page > to_panel THEN [w |-> w, outcome |-> "ValueError"]
    ELSE LET paged == IF 0 < to_panel /\ to_panel # w.comic_page + 1
                      THEN [w EXCEPT !.comic_page = to_panel,
                                     !.narrative_link = "causal"]
                      ELSE [w EXCEPT !.comic_page = @ + 1,
                                     !.narrative_link = "immediate"]
             moved == [paged EXCEPT !.cursor = Len(w.events)]
             last_page_link == Constraint("narrative_" \o moved.narrative_link)
             univ == Universe([path |-> moved.universe],
                              <<Timeline(moved.timeline, <<Location(moved.location)>>)>>)
             new_event == Event(IF for_dialog THEN "dialog" ELSE "narration",
                                moved.comic_page, <<univ>>)
         IN IF last_page_link.outcome = "ValueError"
            THEN [w |-> moved, outcome |-> "ValueError"]
            ELSE [w |-> [moved EXCEPT !.events = Append(@, new_event)],
                  outcome |-> "ok"]

\* a Wizahd was created with one of the event lists
InitWizahd ==
    /\ Constructed
    /\ sid = 1
    /\ args = NoArgs /\ out = NoOutput
    /\ dataset = <<>> /\ frame = NoFrame
    /\ \E events \in GivenEventLists : wizahd = NewWizahd(events)
    /\ did = NoCall

\* a call on the Wizahd that ends as r says
Called(op, target, r) ==
    /\ wizahd' = r.w
    /\ did' = [op |-> op, target |-> target, outcome |-> r.outcome,
               before |-> wizahd]
    /\ UNCHANGED <<sid, cursor, in_multivalue, multivalue_index, default, form,
                   sp_cursor, uuids, hooked, pc, filled, log, last, fills,
                   construction, layout, collapsing>>

Goto == \E c \in (0 - 1)..MaxNarrative : Called("goto", c, goto(wizahd, c))
\* Wizahd.next and Wizahd.prev
GoNext == Called("next", wizahd.cursor + 1, goto(wizahd, wizahd.cursor + 1))
GoPrev == Called("prev", wizahd.cursor - 1, goto(wizahd, wizahd.cursor - 1))
AdvanceNarrative ==
    /\ Len(wizahd.events) < MaxNarrative
    /\ wizahd.comic_page < MaxPanel
    /\ \E to_panel \in 0..MaxPanel, for_dialog \in BOOLEAN :
           Called("advance_narrative", to_panel,
                  advance_narrative(wizahd, to_panel, for_dialog))

NextWizahd == Goto \/ GoNext \/ GoPrev \/ AdvanceNarrative

SpecWizahd == InitWizahd /\ [][NextWizahd]_vars

\* C39: in every state of a Wizahd, the state left by a call that raised
\* included, the cursor indexes an existing event; goto, next and prev with a
\* target outside 0 .. number of events - 1 raise an error and leave the
\* cursor and the followed universe, timeline and location as they were; and
\* advance_narrative either appends exactly one event and puts the cursor on
\* it, or changes nothing.
CursorOnAnEvent ==
    /\ wizahd.cursor \in 0..(Len(wizahd.events) - 1)
    /\ (/\ did.op \in {"goto", "next", "prev"}
        /\ did.target \notin 0..(Len(did.before.events) - 1)) =>
           /\ did.outcome = "ValueError"
           /\ wizahd.cursor = did.before.cursor
           /\ wizahd.universe = did.before.universe
           /\ wizahd.timeline = did.before.timeline
           /\ wizahd.location = did.before.location
    /\ did.op = "advance_narrative" =>
           \/ /\ Len(wizahd.events) = Len(did.before.events) + 1
              /\ SubSeq(wizahd.events, 1, Len(did.before.events)) = did.before.events
              /\ wizahd.cursor = Len(wizahd.events) - 1
           \/ wizahd = did.before

====
